---- MODULE Spec2Model ----
(***************************************************************************)
(* Model of the Autonomous Learning Orchestrator (src/orchestrator.py):    *)
(* the ReAct loop ReActEngine.run with think_and_act and execute_action,   *)
(* the reflection path LearningSystem.reflect_on_task / store_learning,    *)
(* and the public boundary AutonomousOrchestrator.execute_task /           *)
(* ingest_knowledge.  Further sections model the chat front end            *)
(* (src/telegram_bot.py), the sandbox (SecureExecutor, ActionExecutor),    *)
(* the experience memory (src/learning_system.py), the semantic index      *)
(* (RAGSystem of both implementations) and concurrent runs and handlers;   *)
(* each has its own specification over the shared variables.               *)
(*                                                                         *)
(* Texts that the code builds with f-strings are sequences of tokens;      *)
(* queries are sequences of characters because _classify_task searches     *)
(* them for substrings.  A Python dict is a function whose DOMAIN is the   *)
(* set of keys that are present.  Confidence values are in percent.        *)
(***************************************************************************)
EXTENDS Integers, Sequences, FiniteSets, TLC

VARIABLES
    max_iterations,      \* ReActEngine.max_iterations
    reflection_enabled,  \* os.getenv('REFLECTION_ENABLED', 'true').lower() == 'true'
    pc,                  \* position of run: idle, loop, decided, reflect, done
    query,               \* argument of run
    context,             \* running context string of run, as a sequence of parts
    history,             \* history list of run
    iteration,           \* loop counter of run
    decision,            \* value returned by the last think_and_act
    action,              \* Action object built from the decision
    elapsed,             \* datetime.now() - start_time
    outcome,             \* how run ended: the returned dict or the raised exception;
                         \* for a direct call of execute_action, what it returned
    provider,            \* what the providers did during this run (for the claims)
    llm_calls,           \* calls of llm.messages.create made by this run
    executor_calls,      \* SecureExecutor operations invoked by this run
    reflect_calls,       \* arguments of the reflect_on_task calls of this run
    learnings_file,      \* lines of learnings.jsonl
    patterns,            \* LearningSystem.patterns (in memory)
    patterns_file,       \* content of patterns.json
    rag_learnings,       \* documents in the 'learnings' collection
    rag_docs,            \* documents in the 'docs' collection
    ingest_result,       \* how the last ingest_knowledge ended
    result,              \* local variable result of run
    execution_time       \* local variable execution_time of run

\* the variables of ReActEngine.run and the orchestrator
runVars == <<max_iterations, reflection_enabled, pc, query, context, history,
             iteration, decision, action, elapsed, outcome, provider,
             llm_calls, executor_calls, reflect_calls, learnings_file,
             patterns, patterns_file, rag_learnings, rag_docs, ingest_result,
             result, execution_time>>

\* TelegramBot (src/telegram_bot.py)
VARIABLES
    active_tasks,        \* TelegramBot.active_tasks, the users marked as busy
    task_user,           \* user whose _execute_task is in flight, 0 when none
    bot_reply,           \* the last reply the bot sent
    cancel_issued        \* cmd_cancel answered "Task cancelled" for the task in flight

botVars == <<active_tasks, task_user, bot_reply, cancel_issued>>

\* SecureExecutor (src/orchestrator.py), ActionExecutor (src/action_executor.py)
\* and the file system and subprocesses they work on
VARIABLES
    safe_mode,               \* SecureExecutor.safe_mode, ActionExecutor.safe_mode
    workspace_path,          \* the configured WORKSPACE_PATH, as Path keeps it
    code_execution_enabled,  \* config.execution.code_execution_enabled
    files,                   \* the file system: resolved path -> content
    audit_log,               \* SecureExecutor.audit_log
    invocations,             \* SecureExecutor operations invoked so far
    box_last,                \* the latest operation invoked and its arguments
    box_pc,                  \* idle, or waiting for the subprocess
    box_proc,                \* what the subprocess being waited for does
    box_result               \* what the latest finished operation returned

boxVars == <<safe_mode, workspace_path, code_execution_enabled, files,
             audit_log, invocations, box_last, box_pc, box_proc, box_result>>

\* LearningSystem (src/learning_system.py); everything it keeps in memory is
\* also what its three files hold once an operation has finished
VARIABLES
    auto_learn,          \* config.learning.auto_learn
    experiences,         \* LearningSystem.experiences and experiences.jsonl
    memory_patterns,     \* LearningSystem.patterns and patterns.json
    playbook,            \* LearningSystem.playbook and playbook.json
    rag_texts,           \* texts that store_experience added to the RAG store
    mem_ops              \* store operations made so far

memVars == <<auto_learn, experiences, memory_patterns, playbook, rag_texts,
             mem_ops>>

\* RAGSystem (src/orchestrator.py) and RAGSystem (src/rag_system.py): the
\* chunking configuration, the vector store's collections and the call of
\* add_document that is being served
VARIABLES
    chunk_size,          \* RAGSystem.chunk_size, config.rag.chunk_size
    chunk_overlap,       \* RAGSystem.chunk_overlap, config.rag.chunk_overlap
    collection,          \* RAGSystem.collections['docs']: id -> document, metadata
    alo_knowledge,       \* the collection of rag_system.py: id -> document, metadata
    idx_pc,              \* idle, or chunking inside add_document
    idx_content,         \* argument content of the add_document being served
    idx_start,           \* local variable start of chunk_text
    idx_chunks,          \* local variable chunks of chunk_text
    idx_log,             \* what the ingestion calls returned, in order
    idx_results,         \* what the latest query or search returned
    idx_ops              \* ingestion calls made so far; also the clock

idxVars == <<chunk_size, chunk_overlap, collection, alo_knowledge, idx_pc,
             idx_content, idx_start, idx_chunks, idx_log, idx_results, idx_ops>>

\* several coroutines on the one event loop
VARIABLES
    jobs,                \* the calls of ReActEngine.run in flight: their local variables
    py_calls,            \* the calls of SecureExecutor.execute_python in flight
    handlers             \* the task handlers of the bot in flight

\* the variables of the components that are modelled on their own
restVars == <<idxVars, jobs, py_calls, handlers>>

\* the variables that the Semantic Index never touches
notIdxVars == <<runVars, botVars, boxVars, memVars, jobs, py_calls, handlers>>

\* the variables that ReActEngine.run and the orchestrator never touch
notRunVars == <<botVars, boxVars, memVars, restVars>>

vars == <<runVars, notRunVars>>

(***************************************************************************)
(* Bounds of the model.                                                    *)
(***************************************************************************)
MaxIter == 2        \* largest configured max_iterations
MaxElapsed == 1     \* cap on the elapsed time of one run
MaxDocs == 1        \* cap on ingested documents

(***************************************************************************)
(* Python dicts.                                                           *)
(***************************************************************************)
EmptyDict == [k \in {} |-> 0]

\* dict.get(key, default)
Get(d, k, default) == IF k \in DOMAIN d THEN d[k] ELSE default

(***************************************************************************)
(* Queries, as character sequences.                                        *)
(***************************************************************************)
QReadFile == <<"r","e","a","d"," ","a"," ","f","i","l","e">>
QInstall == <<"I","n","s","t","a","l","l"," ","n","u","m","p","y">>
QHello == <<"h","i">>

Queries == {QReadFile, QInstall, QHello}

\* str.lower() on the characters the queries use
LowerChar(c) ==
    CASE c = "I" -> "i"
      [] c = "R" -> "r"
      [] c = "M" -> "m"
      [] c = "F" -> "f"
      [] OTHER -> c

Lower(s) == [i \in 1..Len(s) |-> LowerChar(s[i])]

\* kw in s
Contains(s, kw) ==
    \E i \in 0..(Len(s) - Len(kw)) : SubSeq(s, i + 1, i + Len(kw)) = kw

KwFile == {<<"f","i","l","e">>, <<"r","e","a","d">>, <<"w","r","i","t","e">>,
           <<"c","r","e","a","t","e">>}
KwSearch == {<<"s","e","a","r","c","h">>, <<"f","i","n","d">>, <<"l","o","o","k">>}
KwCode == {<<"c","o","d","e">>, <<"s","c","r","i","p","t">>,
           <<"p","r","o","g","r","a","m">>, <<"f","u","n","c","t","i","o","n">>}
KwSetup == {<<"i","n","s","t","a","l","l">>, <<"s","e","t","u","p">>,
            <<"c","o","n","f","i","g","u","r","e">>}
KwAnalysis == {<<"a","n","a","l","y","z","e">>, <<"c","h","e","c","k">>,
               <<"t","e","s","t">>}

\* A classifier that looks for code keywords first
_classify_task_code_first(q) ==
    LET query_lower == Lower(q) IN
    IF \E kw \in KwCode : Contains(query_lower, kw) THEN "code_generation"
    ELSE IF \E kw \in KwFile : Contains(query_lower, kw) THEN "file_operation"
    ELSE IF \E kw \in KwSearch : Contains(query_lower, kw) THEN "information_retrieval"
    ELSE IF \E kw \in KwSetup : Contains(query_lower, kw) THEN "system_setup"
    ELSE IF \E kw \in KwAnalysis : Contains(query_lower, kw) THEN "analysis"
    ELSE "general_task"

\* LearningSystem._classify_task
_classify_task(q) ==
    LET query_lower == Lower(q) IN
    IF \E kw \in KwFile : Contains(query_lower, kw) THEN "file_operation"
    ELSE IF \E kw \in KwSearch : Contains(query_lower, kw) THEN "information_retrieval"
    ELSE IF \E kw \in KwCode : Contains(query_lower, kw) THEN "code_generation"
    ELSE IF \E kw \in KwSetup : Contains(query_lower, kw) THEN "system_setup"
    ELSE IF \E kw \in KwAnalysis : Contains(query_lower, kw) THEN "analysis"
    ELSE "general_task"

(***************************************************************************)
(* The completion provider.  A response either raises or carries a text;   *)
(* a text is a fence (none, ```json, ``` or ``` followed by a language     *)
(* name) around a body, and a body is invalid JSON (empty, blank,          *)
(* garbage), a JSON value that is no object, or a JSON object.             *)
(***************************************************************************)
DComplete ==
    [thought |-> <<"Task is complete">>,
     action |-> [action_type |-> "complete",
                 parameters |-> [result |-> "Successfully created file"]],
     confidence |-> 100]

DCompleteNoResult ==
    [thought |-> <<"Nothing left to do">>,
     action |-> [action_type |-> "complete", parameters |-> EmptyDict],
     confidence |-> 100]

DBash ==
    [thought |-> <<"List the workspace">>,
     action |-> [action_type |-> "bash_execute",
                 parameters |-> [command |-> "ls"]],
     confidence |-> 90]

DRag ==
    [thought |-> <<"Search the knowledge base">>,
     action |-> [action_type |-> "rag_query",
                 parameters |-> [query |-> "python"]]]

DUnknown ==
    [thought |-> <<"Try something else">>,
     action |-> [action_type |-> "frobnicate", parameters |-> EmptyDict],
     confidence |-> 40]

DNoAction == [thought |-> <<"Thinking">>, confidence |-> 70]

DNoType ==
    [thought |-> <<"Run">>,
     action |-> [parameters |-> [command |-> "ls"]],
     confidence |-> 60]

DNoTypeResult ==
    [thought |-> <<"Finish">>,
     action |-> [parameters |-> [result |-> "All files written"]],
     confidence |-> 80]

Objects == {DComplete, DCompleteNoResult, DBash, DRag, DUnknown,
            DNoAction, DNoType, DNoTypeResult}

Bodies ==
    {[kind |-> k, obj |-> EmptyDict] : k \in {"empty", "blank", "garbage", "scalar"}}
    \cup {[kind |-> "object", obj |-> d] : d \in Objects}

Texts ==
    {[fence |-> "none", body |-> b] : b \in Bodies}
    \cup {[fence |-> "json", body |-> [kind |-> "object", obj |-> DComplete]],
          [fence |-> "plain", body |-> [kind |-> "object", obj |-> DBash]],
          [fence |-> "lang", body |-> [kind |-> "object", obj |-> DComplete]]}

NoText == [fence |-> "none", body |-> [kind |-> "empty", obj |-> EmptyDict]]

Responses ==
    {[raises |-> FALSE, error |-> "", text |-> t] : t \in Texts}
    \cup {[raises |-> TRUE, error |-> "Connection refused", text |-> NoText]}

\* The fence handling of think_and_act: the text between the first fence and
\* the next one, stripped.  After a bare ``` the language name stays in front
\* of the body, which json.loads then rejects.
StripFence(text) ==
    IF text.fence = "lang"
    THEN [kind |-> "garbage", obj |-> EmptyDict]
    ELSE text.body

\* json.loads: raises JSONDecodeError on invalid text, otherwise the value
json_loads(content) ==
    IF content.kind \in {"empty", "blank", "garbage"}
    THEN [error |-> TRUE, is_dict |-> FALSE, value |-> EmptyDict]
    ELSE [error |-> FALSE, is_dict |-> content.kind = "object",
          value |-> content.obj]

ParseFailureDecision ==
    [thought |-> <<"Error parsing response">>,
     action |-> [action_type |-> "complete",
                 parameters |-> [result |-> "Error in reasoning"]],
     confidence |-> 0]

LLMErrorDecision(e) ==
    [thought |-> <<"LLM error: ", e>>,
     action |-> [action_type |-> "complete",
                 parameters |-> [result |-> "Error"]],
     confidence |-> 0]

\* ReActEngine.think_and_act: the value it returns for a provider response
think_and_act(resp) ==
    IF resp.raises
    THEN [is_dict |-> TRUE, value |-> LLMErrorDecision(resp.error)]
    ELSE LET parsed == json_loads(StripFence(resp.text)) IN
         IF parsed.error
         THEN [is_dict |-> TRUE, value |-> ParseFailureDecision]
         ELSE [is_dict |-> parsed.is_dict, value |-> parsed.value]

(***************************************************************************)
(* The sandbox as execute_action sees it: each SecureExecutor operation    *)
(* returns (success, output); anything it lets escape is caught by         *)
(* execute_action.                                                         *)
(***************************************************************************)
LongOutput == <<"long output">>

ContextObsLimit == 1000

\* len(observation)
ObsLen(o) == IF o = LongOutput THEN ContextObsLimit ELSE Len(o)

SandboxResults ==
    {[raises |-> FALSE, success |-> TRUE, output |-> <<"ok">>],
     [raises |-> FALSE, success |-> TRUE, output |-> LongOutput],
     [raises |-> FALSE, success |-> FALSE, output |-> <<"exit 1">>],
     [raises |-> TRUE, success |-> FALSE, output |-> <<"TypeError">>]}

ExecutorActions ==
    {"bash_execute", "python_execute", "file_read", "file_write",
     "install_dependency"}

\* A dispatch that takes an unknown action type for done
UnknownActionAccepted(action_type) ==
    [success |-> TRUE,
     observation |-> <<"Unknown action type: ", action_type>>,
     executor |-> 0]

\* execute_action, the else branch: no operation of that name
UnknownAction(action_type) ==
    [success |-> FALSE,
     observation |-> <<"Unknown action type: ", action_type>>,
     executor |-> 0]

\* A dispatch that hands the complete action to the executor like a command
execute_action_complete_as_command(a, env) ==
    IF a.action_type \in ExecutorActions \cup {"complete"}
    THEN [success |-> ~env.raises /\ env.success, observation |-> env.output,
          executor |-> 1]
    ELSE IF a.action_type = "rag_query"
    THEN [success |-> ~env.raises,
          observation |-> IF env.raises THEN env.output ELSE <<"[]">>,
          executor |-> 0]
    ELSE UnknownAction(a.action_type)

\* ReActEngine.execute_action; env is what the invoked operation does
execute_action(a, env) ==
    LET action_type == a.action_type
        params == a.parameters
    IN  IF action_type \in ExecutorActions
        THEN IF env.raises
             THEN [success |-> FALSE, observation |-> env.output, executor |-> 1]
             ELSE [success |-> env.success, observation |-> env.output,
                   executor |-> 1]
        ELSE IF action_type = "rag_query"
        THEN IF env.raises
             THEN [success |-> FALSE, observation |-> env.output, executor |-> 0]
             ELSE [success |-> TRUE, observation |-> <<"[]">>, executor |-> 0]
        ELSE IF action_type = "complete"
        THEN [success |-> TRUE,
              observation |-> <<Get(params, "result", "Task completed")>>,
              executor |-> 0]
        ELSE UnknownAction(action_type)

(***************************************************************************)
(* LearningSystem (src/orchestrator.py): reflection and persistence.       *)
(***************************************************************************)
\* the observations of the steps of h that failed, in order
RECURSIVE Failures(_)
Failures(h) ==
    IF h = <<>> THEN <<>>
    ELSE IF Head(h).success THEN Failures(Tail(h))
         ELSE <<Head(h).observation>> \o Failures(Tail(h))

\* the actions of the steps of h that succeeded, in order
RECURSIVE Successes(_)
Successes(h) ==
    IF h = <<>> THEN <<>>
    ELSE IF Head(h).success THEN <<Head(h).action>> \o Successes(Tail(h))
         ELSE Successes(Tail(h))

\* A reflection that takes the action of every step for the strategy, whether
\* the step succeeded or not
reflect_on_task_all_actions(q, h, final_result, exec_time) ==
    [task_type |-> _classify_task(q),
     context |-> q,
     successful_strategy |-> [i \in 1..Len(h) |-> h[i].action],
     failure_modes |-> Failures(h),
     execution_time |-> exec_time,
     confidence_score |->
         IF Len(h) > 0
         THEN (Len(Successes(h)) * 100) \div Len(h)
         ELSE 0]

\* The Learning that LearningSystem.reflect_on_task builds
reflect_on_task(q, h, final_result, exec_time) ==
    LET successful_strategy == Successes(h)
        total_actions == Len(h)
        successful_count == Len(successful_strategy)
    IN  [task_type |-> _classify_task(q),
         context |-> q,
         successful_strategy |-> successful_strategy,
         failure_modes |-> Failures(h),
         execution_time |-> exec_time,
         confidence_score |->
             IF total_actions > 0
             THEN (successful_count * 100) \div total_actions
             ELSE 0]

\* failure_patterns after counting the failures of fs
RECURSIVE CountFailures(_, _)
CountFailures(fp, fs) ==
    IF fs = <<>> THEN fp
    ELSE LET f == Head(fs)
             fp1 == [k \in DOMAIN fp \cup {f} |-> Get(fp, k, 0)]
         IN  CountFailures([fp1 EXCEPT ![f] = @ + 1], Tail(fs))

\* An update that starts from the patterns of a fresh installation instead of
\* the patterns in memory
_update_patterns_from_empty(p, learning) ==
    [success_patterns |->
         [t \in {learning.task_type} |->
              <<[strategy |-> learning.successful_strategy,
                 confidence |-> learning.confidence_score]>>],
     failure_patterns |-> CountFailures(EmptyDict, learning.failure_modes)]

\* LearningSystem._update_patterns, the in-memory part
_update_patterns(p, learning) ==
    LET task_type == learning.task_type
        sp == p.success_patterns
        sp1 == [t \in DOMAIN sp \cup {task_type} |-> Get(sp, t, <<>>)]
    IN  [success_patterns |->
             [sp1 EXCEPT ![task_type] =
                  Append(@, [strategy |-> learning.successful_strategy,
                             confidence |-> learning.confidence_score])],
         failure_patterns |->
             CountFailures(p.failure_patterns, learning.failure_modes)]

NoPatterns == [success_patterns |-> EmptyDict, failure_patterns |-> EmptyDict]

(***************************************************************************)
(* ReActEngine.run as a state machine.                                     *)
(***************************************************************************)
NoAction == [action_type |-> "", parameters |-> EmptyDict]

NoOutcome == [kind |-> "none"]

MaxIterationsMessage == "Max iterations reached without completing task"

Returned(success, res, iters, exec_time, h) ==
    [kind |-> "return", success |-> success, result |-> res,
     iterations |-> iters, execution_time |-> exec_time, history |-> h]

Raised(e) == [kind |-> "raise", error |-> e]

Min(a, b) == IF a < b THEN a ELSE b

\* A loop that runs once too often
LoopConditionInclusive(i, m) == i <= m

\* run, line 622: while iteration < self.max_iterations
LoopCondition(i, m) == i < m

\* A max-iterations result that counts the iteration that never ran
MaxIterationsResultPlusOne(i, exec_time, h) ==
    Returned(FALSE, MaxIterationsMessage, i + 1, exec_time, h)

\* run, lines 684-690: the result when the loop is exhausted
MaxIterationsResult(i, exec_time, h) ==
    Returned(FALSE, MaxIterationsMessage, i, exec_time, h)

\* No sandbox of its own: the run above sees the sandbox through SandboxResults
BoxIdle ==
    /\ safe_mode = FALSE
    /\ workspace_path = <<"workspace">>
    /\ code_execution_enabled = TRUE
    /\ files = EmptyDict
    /\ audit_log = <<>>
    /\ invocations = 0
    /\ box_last = [op |-> "none"]
    /\ box_pc = "idle"
    /\ box_proc = [kind |-> "none"]
    /\ box_result = [kind |-> "none"]

\* _load_patterns and _load_playbook when the files do not exist
NoMemoryPatterns == [task_patterns |-> EmptyDict, failure_patterns |-> EmptyDict]

NoPlaybook == [strategies |-> EmptyDict, capabilities |-> <<>>]

\* LearningSystem.__init__ on a fresh installation
MemIdle ==
    /\ auto_learn = TRUE
    /\ experiences = <<>>
    /\ memory_patterns = NoMemoryPatterns
    /\ playbook = NoPlaybook
    /\ rag_texts = 0
    /\ mem_ops = 0

\* RAGSystem.__init__ with the default chunking and empty collections
DefaultChunkSize == 512

DefaultChunkOverlap == 50

IdxIdle ==
    /\ chunk_size = DefaultChunkSize
    /\ chunk_overlap = DefaultChunkOverlap
    /\ collection = EmptyDict
    /\ alo_knowledge = EmptyDict
    /\ idx_pc = "idle"
    /\ idx_content = <<>>
    /\ idx_start = 0
    /\ idx_chunks = <<>>
    /\ idx_log = <<>>
    /\ idx_results = [op |-> "none"]
    /\ idx_ops = 0

\* the coroutines that may be in flight at once
Jobs == {1, 2}

\* a call of run that has not been made
NoJob ==
    [pc |-> "idle", query |-> <<>>, context |-> <<>>, history |-> <<>>,
     iteration |-> 0, decision |-> EmptyDict, action |-> NoAction,
     result |-> "", learning |-> EmptyDict, outcome |-> NoOutcome]

\* a call of execute_python that has not been made
NoPyCall ==
    [pc |-> "idle", code |-> <<>>, proc |-> "none", script |-> <<>>,
     returned |-> NoOutcome]

\* a task handler that has not been called
NoHandler == [pc |-> "idle", user |-> 0, returned |-> "none"]

\* the components that are modelled on their own, at rest
RestIdle ==
    /\ IdxIdle
    /\ jobs = [r \in Jobs |-> NoJob]
    /\ py_calls = [c \in Jobs |-> NoPyCall]
    /\ handlers = [h \in Jobs |-> NoHandler]

\* TelegramBot.__init__: no task is active
BotInit ==
    /\ active_tasks = {}
    /\ task_user = 0
    /\ bot_reply = "none"
    /\ cancel_issued = FALSE

\* A fresh installation with no run in flight and nothing persisted yet
RunFresh ==
    /\ pc = "idle"
    /\ query = <<>>
    /\ context = <<>>
    /\ history = <<>>
    /\ iteration = 0
    /\ decision = EmptyDict
    /\ action = NoAction
    /\ elapsed = 0
    /\ outcome = NoOutcome
    /\ provider = [rag_error |-> "", llm_error |-> "", kinds |-> <<>>]
    /\ llm_calls = 0
    /\ executor_calls = 0
    /\ reflect_calls = <<>>
    /\ learnings_file = <<>>
    /\ patterns = NoPatterns
    /\ patterns_file = NoPatterns
    /\ rag_learnings = 0
    /\ rag_docs = 0
    /\ ingest_result = "none"
    /\ result = ""
    /\ execution_time = 0

\* The state after AutonomousOrchestrator.__init__ on a fresh installation:
\* max_iterations is the configured positive count (default 10), nothing is
\* persisted yet and no run is in flight.
RunInit ==
    /\ max_iterations \in 1..MaxIter
    /\ reflection_enabled \in BOOLEAN
    /\ RunFresh

Init == RunInit /\ BotInit /\ BoxIdle /\ MemIdle /\ RestIdle

\* the orchestrator at rest, in one configuration
RunIdle == RunInit /\ max_iterations = 1 /\ reflection_enabled

\* AutonomousOrchestrator.ingest_knowledge -> RAGSystem.add_document:
\* every failure of chunking, embedding or the collection is caught
IngestKnowledge(fails) ==
    /\ pc = "idle"
    /\ rag_docs < MaxDocs
    /\ IF fails
       THEN /\ ingest_result' = "False"
            /\ UNCHANGED rag_docs
       ELSE /\ ingest_result' = "True"
            /\ rag_docs' = rag_docs + 1
    /\ UNCHANGED <<max_iterations, reflection_enabled, pc, query, context,
                   history, iteration, decision, action, elapsed, outcome,
                   provider, llm_calls, executor_calls, reflect_calls,
                   learnings_file, patterns, patterns_file, rag_learnings,
                   result, execution_time>>
    /\ UNCHANGED notRunVars

\* what the embedding model or the collection says when it fails
RagError == "Collection unavailable"

\* run, lines 603-620: RAGSystem.query returns [] when the embedding model or
\* the collection raises
StartRun(q, rag_fails) ==
    /\ pc = "idle"
    /\ query' = q
    /\ LET context_docs ==
               IF rag_fails THEN <<>>
               ELSE [i \in 1..Min(rag_docs, 3) |-> "doc"]
           context_learnings ==
               IF rag_fails THEN <<>>
               ELSE [i \in 1..Min(rag_learnings, 2) |-> "learning"]
       IN  context' = <<"Relevant Documents:">> \o context_docs
                      \o <<"Previous Learnings:">> \o context_learnings
    /\ history' = <<>>
    /\ iteration' = 0
    /\ elapsed' = 0
    /\ provider' = [provider EXCEPT
                       !.rag_error = IF rag_fails THEN RagError ELSE ""]
    /\ pc' = "loop"
    /\ UNCHANGED <<max_iterations, reflection_enabled, decision, action,
                   outcome, llm_calls, executor_calls, reflect_calls,
                   learnings_file, patterns, patterns_file, rag_learnings,
                   rag_docs, ingest_result, result, execution_time>>
    /\ UNCHANGED notRunVars

ResponseKind(resp, d) ==
    IF resp.raises THEN "raise"
    ELSE IF json_loads(StripFence(resp.text)).error THEN "parse_failure"
    ELSE IF ~d.is_dict THEN "non_dict"
    ELSE IF Get(Get(d.value, "action", EmptyDict), "action_type", "complete")
            = "complete" THEN "complete"
    ELSE "dispatch"

\* run, lines 622-636: one call of think_and_act and the Action built from it
Think(resp, tick) ==
    /\ pc = "loop"
    /\ LoopCondition(iteration, max_iterations)
    /\ llm_calls' = llm_calls + 1
    /\ elapsed' = Min(elapsed + tick, MaxElapsed)
    /\ LET d == think_and_act(resp) IN
       /\ provider' = [provider EXCEPT
                          !.kinds = Append(@, ResponseKind(resp, d)),
                          !.llm_error = IF resp.raises THEN resp.error ELSE @]
       /\ IF d.is_dict
          THEN LET action_dict == Get(d.value, "action", EmptyDict) IN
               /\ decision' = d.value
               /\ action' =
                      [action_type |-> Get(action_dict, "action_type", "complete"),
                       parameters |-> Get(action_dict, "parameters", EmptyDict)]
               /\ pc' = "decided"
               /\ UNCHANGED outcome
          ELSE \* decision.get raises AttributeError, which nothing catches
               /\ outcome' = Raised("AttributeError")
               /\ pc' = "done"
               /\ UNCHANGED <<decision, action>>
    /\ UNCHANGED <<max_iterations, reflection_enabled, query, context, history,
                   iteration, executor_calls, reflect_calls, learnings_file,
                   patterns, patterns_file, rag_learnings, rag_docs,
                   ingest_result, result, execution_time>>
    /\ UNCHANGED notRunVars

\* run, lines 639-659 without the reflection: the complete branch
Complete ==
    /\ pc = "decided"
    /\ action.action_type = "complete"
    /\ result' = Get(action.parameters, "result", "Task completed")
    /\ execution_time' = elapsed
    /\ IF reflection_enabled
       THEN /\ pc' = "reflect"
            /\ UNCHANGED outcome
       ELSE /\ pc' = "done"
            /\ outcome' = Returned(TRUE, result', iteration + 1, elapsed, history)
    /\ UNCHANGED <<max_iterations, reflection_enabled, query, context, history,
                   iteration, decision, action, elapsed, provider, llm_calls,
                   executor_calls, reflect_calls, learnings_file, patterns,
                   patterns_file, rag_learnings, rag_docs, ingest_result>>
    /\ UNCHANGED notRunVars

\* run, lines 646-659: reflect_on_task and store_learning, then the return.
\* persist says which write fails: the append to learnings.jsonl ("log"),
\* the write of patterns.json ("patterns") or none ("ok").
Reflect(persist, rag_fails) ==
    /\ pc = "reflect"
    /\ LET learning == reflect_on_task(query, history, result, execution_time) IN
       /\ reflect_calls' =
              Append(reflect_calls,
                     [query |-> query, history |-> history,
                      final_result |-> result,
                      execution_time |-> execution_time])
       /\ IF persist = "log"
          THEN /\ outcome' = Raised("OSError")
               /\ UNCHANGED <<learnings_file, patterns, patterns_file,
                              rag_learnings>>
          ELSE /\ learnings_file' = Append(learnings_file, learning)
               /\ rag_learnings' = IF rag_fails THEN rag_learnings
                                   ELSE rag_learnings + 1
               /\ patterns' = _update_patterns(patterns, learning)
               /\ IF persist = "patterns"
                  THEN /\ outcome' = Raised("OSError")
                       /\ UNCHANGED patterns_file
                  ELSE /\ patterns_file' = patterns'
                       /\ outcome' = Returned(TRUE, result, iteration + 1,
                                              execution_time, history)
    /\ pc' = "done"
    /\ UNCHANGED <<max_iterations, reflection_enabled, query, context, history,
                   iteration, decision, action, elapsed, provider, llm_calls,
                   executor_calls, rag_docs, ingest_result, result,
                   execution_time>>
    /\ UNCHANGED notRunVars

\* A loop that folds every observation into the context
ExtendContextAlways(c, success, observation) ==
    c \o <<"Latest observation: ">> \o observation

\* run, lines 672-675: the observation of a step that succeeded is folded
\* into the context when it is short
ExtendContext(c, success, observation) ==
    IF success /\ ObsLen(observation) < ContextObsLimit
    THEN c \o <<"Latest observation: ">> \o observation
    ELSE c

\* run, lines 661-677: execute the action, record the step, extend the context
Dispatch(env) ==
    /\ pc = "decided"
    /\ action.action_type # "complete"
    /\ LET r == execute_action(action, env) IN
       /\ executor_calls' = executor_calls + r.executor
       /\ history' = Append(history,
                            [thought |-> Get(decision, "thought", <<>>),
                             action |-> action,
                             observation |-> r.observation,
                             success |-> r.success,
                             confidence |-> Get(decision, "confidence", 50)])
       /\ context' = ExtendContext(context, r.success, r.observation)
    /\ iteration' = iteration + 1
    /\ pc' = "loop"
    /\ UNCHANGED <<max_iterations, reflection_enabled, query, decision, action,
                   elapsed, outcome, provider, llm_calls, reflect_calls, learnings_file,
                   patterns, patterns_file, rag_learnings, rag_docs,
                   ingest_result, result, execution_time>>
    /\ UNCHANGED notRunVars

\* run, lines 679-690: the loop condition fails
Exhaust ==
    /\ pc = "loop"
    /\ ~LoopCondition(iteration, max_iterations)
    /\ execution_time' = elapsed
    /\ outcome' = MaxIterationsResult(iteration, elapsed, history)
    /\ pc' = "done"
    /\ UNCHANGED <<max_iterations, reflection_enabled, query, context, history,
                   iteration, decision, action, elapsed, provider, llm_calls,
                   executor_calls, reflect_calls, learnings_file, patterns,
                   patterns_file, rag_learnings, rag_docs, ingest_result,
                   result>>
    /\ UNCHANGED notRunVars

Next ==
    \/ \E fails \in BOOLEAN : IngestKnowledge(fails)
    \/ \E q \in Queries, rag_fails \in BOOLEAN : StartRun(q, rag_fails)
    \/ \E resp \in Responses, tick \in 0..1 : Think(resp, tick)
    \/ Complete
    \/ \E persist \in {"ok", "log", "patterns"}, rag_fails \in BOOLEAN :
           Reflect(persist, rag_fails)
    \/ \E env \in SandboxResults : Dispatch(env)
    \/ Exhaust

Spec == Init /\ [][Next]_vars

(***************************************************************************)
(* Properties of ReActEngine.run.                                          *)
(***************************************************************************)
RunEnded == pc = "done"

\* the run went into the complete branch (lines 639-659)
CompleteParsed == pc \in {"reflect", "done"} /\ action.action_type = "complete"

LastKind ==
    IF provider.kinds = <<>> THEN "none"
    ELSE provider.kinds[Len(provider.kinds)]

\* every provider response so far was a well-formed non-complete action
NeverComplete ==
    \A i \in 1..Len(provider.kinds) : provider.kinds[i] = "dispatch"

\* C1: whenever the parsed action has action_type 'complete', run stops in
\* that iteration (no sandbox dispatch and no provider call after it) and
\* returns success=true with result equal to parameters.result.
C1_CompleteReturnsSuccess ==
    CompleteParsed =>
        /\ llm_calls = iteration + 1
        /\ Len(history) = iteration
        /\ RunEnded =>
               /\ outcome.kind = "return"
               /\ outcome.success = TRUE
               /\ outcome.result =
                      Get(action.parameters, "result", "Task completed")

\* C2: the iterations value of a returned result never exceeds
\* max_iterations, and the iteration count goes up by exactly 1 in each
\* dispatch of a non-complete action and changes in no other step (so it
\* equals the number of recorded steps).
C2_IterationsBounded ==
    /\ [](outcome.kind = "return" => outcome.iterations <= max_iterations)
    /\ [](iteration = Len(history))
    /\ [][IF pc = "decided" /\ action.action_type # "complete"
          THEN iteration' = iteration + 1
          ELSE iteration' = iteration]_vars

\* a run that returns on the last permitted iteration after a dispatch
C2_Witness ==
    /\ RunEnded
    /\ outcome.kind = "return"
    /\ outcome.success
    /\ outcome.iterations = max_iterations
    /\ Len(outcome.history) >= 1

\* C3: if the provider never returns a complete action, run with
\* max_iterations = N ends with success=false, the fixed max-iterations
\* message, iterations = N and a returned history of exactly N steps.
C3_ExhaustionResult ==
    (RunEnded /\ NeverComplete) =>
        /\ outcome.kind = "return"
        /\ outcome.success = FALSE
        /\ outcome.result = MaxIterationsMessage
        /\ outcome.iterations = max_iterations
        /\ Len(outcome.history) = max_iterations

\* an exhausted run with the largest configured max_iterations
C3_Witness ==
    /\ RunEnded
    /\ NeverComplete
    /\ max_iterations = MaxIter
    /\ Len(provider.kinds) = MaxIter
    /\ outcome.kind = "return"
    /\ ~outcome.success

SupportedActions ==
    ExecutorActions \cup {"rag_query", "complete"}

\* C4: dispatching an action whose action_type is no supported operation
\* gives a failed observation with the 'Unknown action type' message, which
\* is appended to history and counted as one iteration without invoking the
\* executor, and the run goes on to the next loop test instead of ending.
C4_UnknownActionContinues ==
    [][(pc = "decided" /\ action.action_type \notin SupportedActions) =>
          /\ history' =
                 Append(history,
                        [thought |-> Get(decision, "thought", <<>>),
                         action |-> action,
                         observation |->
                             <<"Unknown action type: ", action.action_type>>,
                         success |-> FALSE,
                         confidence |-> Get(decision, "confidence", 50)])
          /\ iteration' = iteration + 1
          /\ executor_calls' = executor_calls
          /\ context' = context
          /\ pc' = "loop"
          /\ outcome' = NoOutcome]_vars

\* an unknown action was recorded and the loop went on to a further step
C4_Witness ==
    /\ Len(history) >= 2
    /\ history[1].action.action_type = "frobnicate"
    /\ ~history[1].success

\* C5: when the provider output is not structurally valid (malformed, empty
\* or blank), think_and_act substitutes a synthetic 'complete' action with
\* confidence 0 and the run ends in that iteration without raising; the
\* parse failure is not reported as a task failure.
C5_ParseFailureCompletes ==
    (LastKind = "parse_failure" /\ pc # "loop") =>
        /\ decision = ParseFailureDecision
        /\ decision.confidence = 0
        /\ action.action_type = "complete"
        /\ llm_calls = iteration + 1
        /\ Len(history) = iteration
        /\ RunEnded => (outcome.kind = "return" /\ outcome.success = TRUE)

\* C6: in every run that ends on a complete action (a real one or the
\* synthetic one), the history returned to the caller contains a step for
\* that terminal action.
C6_TerminalStepRecorded ==
    (RunEnded /\ CompleteParsed /\ outcome.kind = "return") =>
        /\ outcome.history # <<>>
        /\ outcome.history[Len(outcome.history)].action = action

\* C7: when the completion provider or the embedding/vector-store provider
\* raises, the result that execute_task returns has success=false and carries
\* the raw error message: a provider failure is never reported as a success.
C7_ProviderFailureFailsTask ==
    (RunEnded /\ outcome.kind = "return"
     /\ (LastKind = "raise" \/ provider.rag_error # "")) =>
        /\ outcome.success = FALSE
        /\ outcome.result =
               IF LastKind = "raise" THEN provider.llm_error
               ELSE provider.rag_error

\* C8: no exception crosses execute_task or ingest_knowledge: every call
\* ends by returning a value.
C8_NoExceptionCrossesBoundary ==
    /\ RunEnded => outcome.kind = "return"
    /\ ingest_result \in {"none", "True", "False"}

\* C9: a failure inside reflect_on_task (a failed write of the learnings log
\* or of the patterns snapshot) never changes or prevents the result of the
\* run: run still returns the result it had computed.
C9_ReflectionFailureIsContained ==
    (RunEnded /\ reflect_calls # <<>>) =>
        outcome = Returned(TRUE, result, iteration + 1, execution_time, history)

\* C10: on every terminal outcome of run (completion and exhaustion of
\* max_iterations alike), if reflection is enabled, reflect_on_task has been
\* invoked with the query, the history, the result and the elapsed time
\* before the result is returned.
C10_ReflectionOnEveryOutcome ==
    (RunEnded /\ outcome.kind = "return" /\ reflection_enabled) =>
        reflect_calls =
            <<[query |-> query, history |-> outcome.history,
               final_result |-> outcome.result,
               execution_time |-> outcome.execution_time]>>

(***************************************************************************)
(* TelegramBot (src/telegram_bot.py): a task started from a chat message   *)
(* and the /cancel command.  One run is in flight at a time, the one of    *)
(* the state machine above; the library decides when a handler runs, so    *)
(* cmd_cancel may be served at any point where the run awaits.             *)
(***************************************************************************)
Users == {1, 2}

\* _execute_task, lines 180-201: refuse a second task of a busy user, else
\* mark the user and announce the task
ExecuteTaskBegin(u) ==
    /\ IF u \in active_tasks
       THEN /\ bot_reply' = "already_active"
            /\ UNCHANGED <<active_tasks, task_user, cancel_issued>>
       ELSE /\ task_user = 0
            /\ pc = "idle"
            /\ active_tasks' = active_tasks \cup {u}
            /\ task_user' = u
            /\ bot_reply' = "executing"
            /\ cancel_issued' = FALSE
    /\ UNCHANGED <<runVars, boxVars, memVars, restVars>>

\* _execute_task, lines 203-211: await self.orchestrator.execute_task(...)
ExecuteTaskRun(q, rag_fails) ==
    /\ task_user # 0
    /\ StartRun(q, rag_fails)

\* _execute_task, lines 213-264: the result or the error is shown, and the
\* finally clause unmarks the user
ExecuteTaskEnd ==
    /\ task_user # 0
    /\ pc = "done"
    /\ bot_reply' = IF outcome.kind = "return" THEN "result" ELSE "error"
    /\ active_tasks' = active_tasks \ {task_user}
    /\ task_user' = 0
    /\ UNCHANGED cancel_issued
    /\ UNCHANGED <<runVars, boxVars, memVars, restVars>>

\* cmd_cancel, lines 381-389: the marker is removed; nothing is told to the run
cmd_cancel(u) ==
    /\ IF u \in active_tasks
       THEN /\ active_tasks' = active_tasks \ {u}
            /\ bot_reply' = "cancelled"
            /\ cancel_issued' = (cancel_issued \/ (u = task_user /\ pc # "done"))
       ELSE /\ bot_reply' = "no_active_task"
            /\ UNCHANGED <<active_tasks, cancel_issued>>
    /\ UNCHANGED task_user
    /\ UNCHANGED <<runVars, boxVars, memVars, restVars>>

NextBot ==
    \/ \E u \in Users : ExecuteTaskBegin(u)
    \/ \E q \in Queries, rag_fails \in BOOLEAN : ExecuteTaskRun(q, rag_fails)
    \/ \E resp \in Responses, tick \in 0..1 : Think(resp, tick)
    \/ Complete
    \/ \E persist \in {"ok", "log", "patterns"}, rag_fails \in BOOLEAN :
           Reflect(persist, rag_fails)
    \/ \E env \in SandboxResults : Dispatch(env)
    \/ Exhaust
    \/ ExecuteTaskEnd
    \/ \E u \in Users : cmd_cancel(u)

SpecBot == Init /\ [][NextBot]_vars

\* C11: once /cancel has been answered for the task in flight, the run makes
\* no further provider call (the iteration in progress may still finish its
\* dispatch, which is the most a cooperative check between iterations allows)
C11_CancelStopsProviderCalls ==
    [][cancel_issued => llm_calls' = llm_calls]_vars

(***************************************************************************)
(* The sandbox: SecureExecutor (src/orchestrator.py) and ActionExecutor    *)
(* (src/action_executor.py).  A path string is a sequence of tokens, "/"   *)
(* being the separator and a component being the tokens between two        *)
(* separators, so that "workspace" is a string prefix of "workspace_evil"  *)
(* without being the same component.  A resolved path is the sequence of   *)
(* its components.  Commands and file contents are character sequences.    *)
(***************************************************************************)
MaxOps == 2         \* cap on the SecureExecutor operations of one behaviour

\* the directory the process was started in
Cwd == <<"/", "app">>

WsAbsolute == <<"/", "app", "/", "workspace">>
\* Path('./workspace'), the default WORKSPACE_PATH
WsDefault == <<"workspace">>

PInside == <<"/", "app", "/", "workspace", "/", "notes.txt">>
PRelative == <<"notes.txt">>
PSibling == <<"/", "app", "/", "workspace", "_evil", "/", "secret.txt">>
PDotDot == <<"/", "app", "/", "workspace", "/", "..", "/", "secret.txt">>

FilePaths == {PInside, PRelative, PSibling, PDotDot}

Hello == <<"h", "e", "l", "l", "o">>
Contents == {Hello, <<>>}
Secret == <<"s", "3">>

\* os.path.isabs
IsAbs(path) == path # <<>> /\ Head(path) = "/"

\* the components of a path string
RECURSIVE Parts(_)
Parts(path) ==
    IF path = <<>> THEN <<>>
    ELSE IF Head(path) = "/" THEN Parts(Tail(path))
    ELSE LET n == CHOOSE k \in 1..Len(path) :
                      /\ \A i \in 1..k : path[i] # "/"
                      /\ (k = Len(path) \/ path[k + 1] = "/")
         IN  <<SubSeq(path, 1, n)>> \o Parts(SubSeq(path, n + 1, Len(path)))

\* os.path.join(a, b) for a relative b
Join(a, b) == a \o <<"/">> \o b

\* ".." removes the component before it
RECURSIVE Normalize(_, _)
Normalize(done, parts) ==
    IF parts = <<>> THEN done
    ELSE IF Head(parts) = <<"..">>
    THEN Normalize(IF done = <<>> THEN <<>> ELSE SubSeq(done, 1, Len(done) - 1),
                   Tail(parts))
    ELSE Normalize(Append(done, Head(parts)), Tail(parts))

\* Path(path).resolve(): made absolute against the process directory, ".."
\* removed (the model's file system has no symbolic links)
Resolve(path) ==
    Normalize(<<>>, Parts(IF IsAbs(path) THEN path ELSE Join(Cwd, path)))

\* str() of a resolved path
RECURSIVE PathStr(_)
PathStr(parts) ==
    IF parts = <<>> THEN <<>>
    ELSE <<"/">> \o Head(parts) \o PathStr(Tail(parts))

\* str.startswith
StartsWith(str, prefix) ==
    Len(prefix) <= Len(str) /\ SubSeq(str, 1, Len(prefix)) = prefix

\* PurePath.is_relative_to(other) for an absolute self: same anchor and the
\* components of other lead the components of self
IsRelativeTo(resolved, other) ==
    /\ IsAbs(other)
    /\ StartsWith(resolved, Parts(other))

\* SecureExecutor.validate_path
validate_path(path) == IsRelativeTo(Resolve(path), workspace_path)

\* ActionExecutor._file_read / _file_write, line 150 and line 179: the
\* string of the resolved path starts with the string of the resolved workspace
InWorkspacePrefix(filepath) ==
    StartsWith(PathStr(Resolve(filepath)), PathStr(Resolve(workspace_path)))

\* the directory a path really lies in: component by component
Inside(resolved) == StartsWith(resolved, Resolve(workspace_path))

\* A text: what it consists of and how many characters it has
Text(of, len) == [of |-> of, len |-> len]

\* text[:n]
Slice(text, n) == IF text.len > n THEN [text EXCEPT !.len = n] ELSE text

AuditResultLimit == 500

Commands ==
    {<<"l", "s">>,
     <<"r", "m", " ", "-", "r", "f", " ", "/">>,
     <<"R", "M", " ", "-", "R", "F", " ", "/">>}

\* what a subprocess does: it cannot be started, it exits, or it never exits
ProcOutcomes ==
    {[kind |-> "spawn_error", returncode |-> 1, output |-> Text(<<"OSError">>, 7)],
     [kind |-> "exit", returncode |-> 0, output |-> Text(<<"stdout">>, 2)],
     [kind |-> "exit", returncode |-> 0, output |-> Text(<<"stdout">>, 600)],
     [kind |-> "exit", returncode |-> 1, output |-> Text(<<"stderr">>, 9)],
     [kind |-> "hang", returncode |-> 0, output |-> Text(<<>>, 0)]}

NoProc == [kind |-> "none"]

NoResult == [kind |-> "none"]

BoxReturn(success, output) ==
    [kind |-> "return", success |-> success, output |-> output]

\* SecureExecutor.audit
audit(log, action_name, parameters, res, success) ==
    Append(log, [timestamp |-> Len(log) + 1,
                 action |-> action_name,
                 parameters |-> parameters,
                 result |-> Slice(res, AuditResultLimit),
                 success |-> success])

\* execute_bash, line 108
dangerous ==
    {<<"r", "m", " ", "-", "r", "f", " ", "/">>,
     <<"d", "d", " ", "i", "f", "=">>,
     <<"m", "k", "f", "s">>,
     <<":", "(", ")", "{", ":", "|", ":", "&", "}", ";", ":">>,
     <<"f", "o", "r", "k", " ", "b", "o", "m", "b">>}

\* A denylist test on the text as typed
blocked_as_typed(command) == \E d \in dangerous : Contains(command, d)

\* execute_bash, line 109: any(d in command.lower() for d in dangerous)
blocked(command) == \E d \in dangerous : Contains(Lower(command), d)

\* _bash_execute, lines 78-79
ae_blocked(command) ==
    \E d \in {<<"r", "m", " ", "-", "r", "f">>,
              <<"d", "d", " ", "i", "f", "=">>,
              <<"m", "k", "f", "s">>,
              <<">", " ", "/", "d", "e", "v", "/">>} :
        Contains(Lower(command), d)

\* SecureExecutor.execute_bash up to the await of communicate()
execute_bash(command, proc) ==
    /\ box_pc = "idle"
    /\ invocations < MaxOps
    /\ invocations' = invocations + 1
    /\ box_last' = [op |-> "execute_bash", command |-> command]
    /\ IF safe_mode /\ blocked(command)
       THEN /\ box_result' = BoxReturn(FALSE, Text(<<"Command blocked by safe mode">>, 28))
            /\ UNCHANGED <<audit_log, box_pc, box_proc>>
       ELSE IF proc.kind = "spawn_error"
       THEN /\ audit_log' = audit(audit_log, "bash_execute",
                                  [command |-> command], proc.output, FALSE)
            /\ box_result' = BoxReturn(FALSE, proc.output)
            /\ UNCHANGED <<box_pc, box_proc>>
       ELSE /\ box_pc' = "waiting"
            /\ box_proc' = proc
            /\ box_result' = NoResult
            /\ UNCHANGED audit_log
    /\ UNCHANGED <<safe_mode, workspace_path, code_execution_enabled, files>>
    /\ UNCHANGED <<runVars, botVars, memVars, restVars>>

\* SecureExecutor.execute_bash, lines 119-125: communicate() returns when the
\* process has exited; no timeout is given
communicate ==
    /\ box_pc = "waiting"
    /\ box_last.op = "execute_bash"
    /\ box_proc.kind = "exit"
    /\ LET success == box_proc.returncode = 0 IN
       /\ audit_log' = audit(audit_log, "bash_execute",
                             [command |-> box_last.command], box_proc.output,
                             success)
       /\ box_result' = BoxReturn(success, box_proc.output)
    /\ box_pc' = "idle"
    /\ box_proc' = NoProc
    /\ UNCHANGED <<safe_mode, workspace_path, code_execution_enabled, files,
                   invocations, box_last>>
    /\ UNCHANGED <<runVars, botVars, memVars, restVars>>

\* SecureExecutor.read_file; io_fails: read_text raises
read_file(filepath, io_fails) ==
    /\ box_pc = "idle"
    /\ invocations < MaxOps
    /\ invocations' = invocations + 1
    /\ box_last' = [op |-> "read_file", filepath |-> filepath]
    /\ IF ~validate_path(filepath)
       THEN /\ box_result' = BoxReturn(FALSE, Text(<<"Path outside workspace">>, 22))
            /\ UNCHANGED audit_log
       ELSE IF Resolve(filepath) \notin DOMAIN files
       THEN /\ box_result' = BoxReturn(FALSE, Text(<<"File not found">>, 14))
            /\ UNCHANGED audit_log
       ELSE IF io_fails
       THEN /\ audit_log' = audit(audit_log, "file_read", [filepath |-> filepath],
                                  Text(<<"PermissionError">>, 15), FALSE)
            /\ box_result' = BoxReturn(FALSE, Text(<<"PermissionError">>, 15))
       ELSE LET content == files[Resolve(filepath)] IN
            /\ audit_log' = audit(audit_log, "file_read", [filepath |-> filepath],
                                  Text(<<"Read ", Len(content), " chars">>, 12),
                                  TRUE)
            /\ box_result' = BoxReturn(TRUE, Text(content, Len(content)))
    /\ UNCHANGED <<safe_mode, workspace_path, code_execution_enabled, files,
                   box_pc, box_proc>>
    /\ UNCHANGED <<runVars, botVars, memVars, restVars>>

\* open(path, 'w').write(content)
WriteText(fs, resolved, content) ==
    [f \in DOMAIN fs \cup {resolved} |->
         IF f = resolved THEN content ELSE fs[f]]

\* SecureExecutor.write_file; io_fails: mkdir or write_text raises
write_file(filepath, content, io_fails) ==
    /\ box_pc = "idle"
    /\ invocations < MaxOps
    /\ invocations' = invocations + 1
    /\ box_last' = [op |-> "write_file", filepath |-> filepath,
                    content |-> content]
    /\ IF ~validate_path(filepath)
       THEN /\ box_result' = BoxReturn(FALSE, Text(<<"Path outside workspace">>, 22))
            /\ UNCHANGED <<audit_log, files>>
       ELSE IF io_fails
       THEN /\ audit_log' = audit(audit_log, "file_write", [filepath |-> filepath],
                                  Text(<<"PermissionError">>, 15), FALSE)
            /\ box_result' = BoxReturn(FALSE, Text(<<"PermissionError">>, 15))
            /\ UNCHANGED files
       ELSE /\ files' = WriteText(files, Resolve(filepath), content)
            /\ audit_log' = audit(audit_log, "file_write", [filepath |-> filepath],
                                  Text(<<"Wrote ", Len(content), " chars">>, 13),
                                  TRUE)
            /\ box_result' =
                   BoxReturn(TRUE, Text(<<"Wrote ", Len(content),
                                          " characters to ", filepath>>, 40))
    /\ UNCHANGED <<safe_mode, workspace_path, code_execution_enabled, box_pc,
                   box_proc>>
    /\ UNCHANGED <<runVars, botVars, memVars, restVars>>

\* ActionExecutor._bash_execute up to subprocess.run
_bash_execute(command, proc) ==
    /\ box_pc = "idle"
    /\ box_last' = [op |-> "_bash_execute", command |-> command]
    /\ IF ~code_execution_enabled
       THEN /\ box_result' = BoxReturn(FALSE, Text(<<"Code execution is disabled">>, 26))
            /\ UNCHANGED <<box_pc, box_proc>>
       ELSE IF safe_mode /\ ae_blocked(command)
       THEN /\ box_result' = BoxReturn(FALSE, Text(<<"Command blocked in safe mode">>, 28))
            /\ UNCHANGED <<box_pc, box_proc>>
       ELSE IF proc.kind = "spawn_error"
       THEN /\ box_result' = BoxReturn(FALSE, proc.output)
            /\ UNCHANGED <<box_pc, box_proc>>
       ELSE /\ box_pc' = "waiting"
            /\ box_proc' = proc
            /\ box_result' = NoResult
    /\ UNCHANGED <<safe_mode, workspace_path, code_execution_enabled, files,
                   audit_log, invocations>>
    /\ UNCHANGED <<runVars, botVars, memVars, restVars>>

\* ActionExecutor._bash_execute, lines 83-99: subprocess.run returns when the
\* process has exited or raises TimeoutExpired after config.execution.timeout
subprocess_run ==
    /\ box_pc = "waiting"
    /\ box_last.op = "_bash_execute"
    /\ box_result' =
           IF box_proc.kind = "exit"
           THEN BoxReturn(box_proc.returncode = 0, box_proc.output)
           ELSE BoxReturn(FALSE, Text(<<"Command timed out">>, 17))
    /\ box_pc' = "idle"
    /\ box_proc' = NoProc
    /\ UNCHANGED <<safe_mode, workspace_path, code_execution_enabled, files,
                   audit_log, invocations, box_last>>
    /\ UNCHANGED <<runVars, botVars, memVars, restVars>>

\* ActionExecutor._file_read and _file_write, the path they open
ae_filepath(path) ==
    IF IsAbs(path) THEN path ELSE Join(workspace_path, path)

\* ActionExecutor._file_read; contents stay far below max_file_size
_file_read(path) ==
    /\ box_pc = "idle"
    /\ box_last' = [op |-> "_file_read", filepath |-> ae_filepath(path)]
    /\ LET filepath == ae_filepath(path) IN
       IF safe_mode /\ ~InWorkspacePrefix(filepath)
       THEN box_result' =
                BoxReturn(FALSE, Text(<<"Access denied: file outside workspace">>, 37))
       ELSE IF Resolve(filepath) \notin DOMAIN files
       THEN box_result' = BoxReturn(FALSE, Text(<<"FileNotFoundError">>, 17))
       ELSE LET content == files[Resolve(filepath)] IN
            box_result' = BoxReturn(TRUE, Text(content, Len(content)))
    /\ UNCHANGED <<safe_mode, workspace_path, code_execution_enabled, files,
                   audit_log, invocations, box_pc, box_proc>>
    /\ UNCHANGED <<runVars, botVars, memVars, restVars>>

\* ActionExecutor._file_write; io_fails: makedirs or open raises
_file_write(path, content, io_fails) ==
    /\ box_pc = "idle"
    /\ box_last' = [op |-> "_file_write", filepath |-> ae_filepath(path),
                    content |-> content]
    /\ LET filepath == ae_filepath(path) IN
       IF safe_mode /\ ~InWorkspacePrefix(filepath)
       THEN /\ box_result' =
                   BoxReturn(FALSE, Text(<<"Access denied: file outside workspace">>, 37))
            /\ UNCHANGED files
       ELSE IF io_fails
       THEN /\ box_result' = BoxReturn(FALSE, Text(<<"PermissionError">>, 15))
            /\ UNCHANGED files
       ELSE /\ files' = WriteText(files, Resolve(filepath), content)
            /\ box_result' =
                   BoxReturn(TRUE, Text(<<"Written ", Len(content), " bytes to ",
                                          filepath>>, 40))
    /\ UNCHANGED <<safe_mode, workspace_path, code_execution_enabled,
                   audit_log, invocations, box_pc, box_proc>>
    /\ UNCHANGED <<runVars, botVars, memVars, restVars>>

\* A deployment: /app/workspace is the workspace, configured by its absolute
\* or by its default relative name; next to it lies /app/workspace_evil with
\* a file that does not belong to the workspace
BoxInit ==
    /\ safe_mode \in BOOLEAN
    /\ workspace_path \in {WsAbsolute, WsDefault}
    /\ code_execution_enabled = TRUE
    /\ files = WriteText(EmptyDict, Resolve(PSibling), Secret)
    /\ audit_log = <<>>
    /\ invocations = 0
    /\ box_last = [op |-> "none"]
    /\ box_pc = "idle"
    /\ box_proc = NoProc
    /\ box_result = NoResult

InitBox == RunIdle /\ BotInit /\ BoxInit /\ MemIdle /\ RestIdle

NextBox ==
    \/ \E command \in Commands, proc \in ProcOutcomes : execute_bash(command, proc)
    \/ communicate
    \/ \E filepath \in FilePaths, io_fails \in BOOLEAN : read_file(filepath, io_fails)
    \/ \E filepath \in FilePaths, content \in Contents, io_fails \in BOOLEAN :
           write_file(filepath, content, io_fails)

\* SecureExecutor on its own
SpecBox == InitBox /\ [][NextBox]_vars

\* The same deployment with the settings that only ActionExecutor reads
ActionExecutorInit ==
    /\ safe_mode \in BOOLEAN
    /\ workspace_path \in {WsAbsolute, WsDefault}
    /\ code_execution_enabled \in BOOLEAN
    /\ files = WriteText(EmptyDict, Resolve(PSibling), Secret)
    /\ audit_log = <<>>
    /\ invocations = 0
    /\ box_last = [op |-> "none"]
    /\ box_pc = "idle"
    /\ box_proc = NoProc
    /\ box_result = NoResult

InitActionExecutor ==
    RunIdle /\ BotInit /\ ActionExecutorInit /\ MemIdle /\ RestIdle

NextActionExecutor ==
    \/ \E command \in Commands, proc \in ProcOutcomes : _bash_execute(command, proc)
    \/ subprocess_run
    \/ \E path \in FilePaths : _file_read(path)
    \/ \E path \in FilePaths, content \in Contents, io_fails \in BOOLEAN :
           _file_write(path, content, io_fails)

\* ActionExecutor on its own
SpecActionExecutor == InitActionExecutor /\ [][NextActionExecutor]_vars

(***************************************************************************)
(* Properties of the sandbox.                                              *)
(***************************************************************************)
\* C12: in safe mode an execute_bash call whose lowercased command contains a
\* denylisted substring returns (False, "Command blocked by safe mode") at
\* once and no subprocess is spawned for it
C12_SafeModeBlocksDenylisted ==
    [][(/\ invocations' = invocations + 1
        /\ box_last'.op = "execute_bash"
        /\ safe_mode
        /\ \E d \in dangerous : Contains(Lower(box_last'.command), d))
       => (/\ box_pc' = "idle"
           /\ box_proc' = NoProc
           /\ box_result'.kind = "return"
           /\ ~box_result'.success
           /\ box_result'.output.of = <<"Command blocked by safe mode">>)]_vars

\* a denylisted command typed in capitals has been refused
C12_Witness ==
    /\ safe_mode
    /\ box_last.op = "execute_bash"
    /\ box_last.command = <<"R", "M", " ", "-", "R", "F", " ", "/">>
    /\ box_pc = "idle"
    /\ box_result.kind = "return"
    /\ ~box_result.success

\* the file a name denotes when bare names are names inside the workspace
WorkspaceFile(filepath) ==
    Resolve(IF IsAbs(filepath) THEN filepath ELSE Join(workspace_path, filepath))

\* C13: in safe mode a file read or write whose path resolves outside the
\* workspace touches no file and returns a failed "access denied" observation
C13_NoFileAccessOutsideWorkspace ==
    [][(/\ safe_mode
        /\ box_last'.op \in {"_file_read", "_file_write"}
        /\ ~Inside(Resolve(box_last'.filepath)))
       => (/\ files' = files
           /\ box_result'.kind = "return"
           /\ ~box_result'.success
           /\ box_result'.output.of = <<"Access denied: file outside workspace">>)]_vars

\* C14: writing a file name inside the workspace succeeds and stores the
\* content, and reading such a name whose file exists succeeds and returns
\* the stored content (an I/O error of the operating system aside)
C14_WriteThenReadRoundTrip ==
    [][/\ (/\ invocations' = invocations + 1
           /\ box_last'.op = "write_file"
           /\ Inside(WorkspaceFile(box_last'.filepath))
           /\ box_result'.output.of # <<"PermissionError">>)
          => (/\ box_result'.success
              /\ WorkspaceFile(box_last'.filepath) \in DOMAIN files'
              /\ files'[WorkspaceFile(box_last'.filepath)] = box_last'.content)
       /\ (/\ invocations' = invocations + 1
           /\ box_last'.op = "read_file"
           /\ Inside(WorkspaceFile(box_last'.filepath))
           /\ WorkspaceFile(box_last'.filepath) \in DOMAIN files
           /\ box_result'.output.of # <<"PermissionError">>)
          => (/\ box_result'.success
              /\ box_result'.output.of = files[WorkspaceFile(box_last'.filepath)])
      ]_vars

\* C15: whenever no operation is in flight the audit log has one record per
\* invocation, whatever the invocation's outcome
C15_EveryInvocationAudited ==
    box_pc = "idle" => Len(audit_log) = invocations

\* C16: an operation that waits for a subprocess that never exits can still
\* return (with its timeout result)
C16_HungSubprocessTimesOut ==
    (box_pc = "waiting" /\ box_proc.kind = "hang")
        => ENABLED (communicate \/ subprocess_run)

(***************************************************************************)
(* LearningSystem (src/learning_system.py): the experience log, the        *)
(* patterns and the playbook.  Scores are in percent; a quotient is kept   *)
(* as the pair of its numerator and its denominator.                       *)
(***************************************************************************)
MaxStores == 2      \* cap on the experiences and learnings stored in one behaviour

\* The confidence scores of src/learning_system.py are doubles.  They are
\* written in thousandths, and a result that the double arithmetic rounds
\* to the next double above the decimal has 1 as its last digit:
\* 0.8 - 0.2 = 0.6000000000000001 is 601, while the literal 0.6 is 600.
ConfidenceThreshold == 600

PlaybookLimit == 5

\* the actions of a strategy
StepA == [action_type |-> "file_write"]
StepB == [action_type |-> "bash_execute"]

\* strategies handed to store_experience
Strategies == {<<>>, <<StepA, StepB, StepA>>}

TaskTypes == {"file_operation", "general_task"}

\* A score that subtracts a tenth per step without any limit
_calculate_confidence_unlimited(strategy, success) ==
    (IF success THEN 800 ELSE 200) - Len(strategy) * 100

\* a - b in double arithmetic: 0.8 - 0.1 = 0.7000000000000001 and
\* 0.8 - 0.2 = 0.6000000000000001; the other differences are exact
FloatMinus(a, b) ==
    a - b + (IF a = 800 /\ b \in {100, 200} THEN 1 ELSE 0)

\* LearningSystem._calculate_confidence
_calculate_confidence(strategy, success) ==
    LET base_score == IF success THEN 800 ELSE 200
        complexity_factor == Min(Len(strategy) * 100, 200)
        score == FloatMinus(base_score, complexity_factor)
    IN  IF score < 0 THEN 0 ELSE Min(1000, score)

\* sum(1 for exp in experiences if exp["task_type"] == task_type and exp["success"])
RECURSIVE TotalSuccesses(_, _)
TotalSuccesses(exps, task_type) ==
    IF exps = <<>> THEN 0
    ELSE (IF Head(exps).task_type = task_type /\ Head(exps).success THEN 1 ELSE 0)
         + TotalSuccesses(Tail(exps), task_type)

\* sum(exp["execution_time"] for exp in experiences if exp["task_type"] == task_type)
RECURSIVE TotalTime(_, _)
TotalTime(exps, task_type) ==
    IF exps = <<>> THEN 0
    ELSE (IF Head(exps).task_type = task_type THEN Head(exps).execution_time ELSE 0)
         + TotalTime(Tail(exps), task_type)

\* _update_patterns, lines 140-143: action types not yet listed are appended
RECURSIVE CommonActions(_, _)
CommonActions(common, strategy) ==
    IF strategy = <<>> THEN common
    ELSE LET action_type == Get(Head(strategy), "action_type", "unknown") IN
         CommonActions(IF \E i \in 1..Len(common) : common[i] = action_type
                       THEN common ELSE Append(common, action_type),
                       Tail(strategy))

NewPattern ==
    [count |-> 0, success_rate |-> [num |-> 0, den |-> 1],
     common_actions |-> <<>>, avg_execution_time |-> [num |-> 0, den |-> 1]]

\* LearningSystem._update_patterns of src/learning_system.py; exps is
\* self.experiences, to which the experience has already been appended
memory_update_patterns(p, exps, experience) ==
    LET task_type == experience.task_type
        tp == [t \in DOMAIN p.task_patterns \cup {task_type} |->
                   Get(p.task_patterns, t, NewPattern)]
        count == tp[task_type].count + 1
        failure_key == <<task_type, ":", experience.failure_reason>>
        fp == p.failure_patterns
    IN  [task_patterns |->
             [tp EXCEPT ![task_type] =
                  [count |-> count,
                   success_rate |->
                       [num |-> TotalSuccesses(exps, task_type), den |-> count],
                   common_actions |->
                       CommonActions(@.common_actions, experience.strategy),
                   avg_execution_time |->
                       [num |-> TotalTime(exps, task_type), den |-> count]]],
         failure_patterns |->
             IF ~experience.success /\ experience.failure_reason # "None"
             THEN [k \in DOMAIN fp \cup {failure_key} |->
                       Get(fp, k, 0) + (IF k = failure_key THEN 1 ELSE 0)]
             ELSE fp]

\* hashlib.md5(json.dumps(strategy, sort_keys=True)): equal for equal
\* strategies, different for the different strategies of the model
strategy_hash(strategy) == <<"md5", strategy>>

\* x goes behind every entry whose confidence is not smaller
RECURSIVE InsertByConfidence(_, _)
InsertByConfidence(sorted, x) ==
    IF sorted = <<>> THEN <<x>>
    ELSE IF Head(sorted).confidence >= x.confidence
    THEN <<Head(sorted)>> \o InsertByConfidence(Tail(sorted), x)
    ELSE <<x>> \o sorted

\* sorted(entries, key=lambda x: x["confidence"], reverse=True), which keeps
\* the order of entries of equal confidence
RECURSIVE SortedByConfidence(_)
SortedByConfidence(entries) ==
    IF entries = <<>> THEN <<>>
    ELSE InsertByConfidence(
             SortedByConfidence(SubSeq(entries, 1, Len(entries) - 1)),
             entries[Len(entries)])

\* A playbook that keeps every strategy
KeepAll(entries) == SortedByConfidence(entries)

\* _update_playbook, lines 182-186: the five most confident strategies
TopStrategies(entries) ==
    SubSeq(SortedByConfidence(entries), 1, Min(Len(entries), PlaybookLimit))

\* A playbook that inserts every proposed strategy
_update_playbook_without_hash(pb, experience) ==
    LET task_type == experience.task_type
        confidence == experience.confidence_score
        st == [t \in DOMAIN pb.strategies \cup {task_type} |->
                   Get(pb.strategies, t, <<>>)]
    IN  IF confidence >= ConfidenceThreshold
        THEN [pb EXCEPT !.strategies =
                 [st EXCEPT ![task_type] =
                      TopStrategies(
                          Append(@, [hash |-> strategy_hash(experience.strategy),
                                     strategy |-> experience.strategy,
                                     confidence |-> confidence,
                                     execution_time |-> experience.execution_time,
                                     query_example |-> experience.query]))]]
        ELSE pb

\* LearningSystem._update_playbook
_update_playbook(pb, experience) ==
    LET task_type == experience.task_type
        confidence == experience.confidence_score
        st == [t \in DOMAIN pb.strategies \cup {task_type} |->
                   Get(pb.strategies, t, <<>>)]
        hash == strategy_hash(experience.strategy)
        existing == {i \in 1..Len(st[task_type]) : st[task_type][i].hash = hash}
    IN  IF confidence >= ConfidenceThreshold
        THEN IF existing = {}
             THEN [pb EXCEPT !.strategies =
                      [st EXCEPT ![task_type] =
                           TopStrategies(
                               Append(@, [hash |-> hash,
                                          strategy |-> experience.strategy,
                                          confidence |-> confidence,
                                          execution_time |-> experience.execution_time,
                                          query_example |-> experience.query]))]]
             ELSE [pb EXCEPT !.strategies = st]
        ELSE pb

\* None, as get_best_strategy returns it
NoStrategy == [hash |-> "None"]

\* LearningSystem.get_best_strategy
get_best_strategy(pb, task_type) ==
    IF task_type \in DOMAIN pb.strategies /\ pb.strategies[task_type] # <<>>
    THEN pb.strategies[task_type][1]
    ELSE NoStrategy

\* the memory as one value
Memory(exps, p, pb, texts) ==
    [experiences |-> exps, patterns |-> p, playbook |-> pb, rag_texts |-> texts]

\* A store that learns whatever the auto-learn flag says
StoredAlwaysLearning(mem, learn, task_type, q, strategy, success, exec_time, failure_reason) ==
    LET experience ==
            [task_type |-> task_type,
             query |-> q,
             strategy |-> strategy,
             success |-> success,
             execution_time |-> exec_time,
             failure_reason |-> failure_reason,
             timestamp |-> Len(mem.experiences) + 1,
             confidence_score |-> _calculate_confidence(strategy, success)]
        exps == Append(mem.experiences, experience)
    IN  Memory(exps,
               memory_update_patterns(mem.patterns, exps, experience),
               IF success THEN _update_playbook(mem.playbook, experience)
               ELSE mem.playbook,
               IF success THEN mem.rag_texts + 1 ELSE mem.rag_texts)

\* LearningSystem.store_experience as a function of the memory
Stored(mem, learn, task_type, q, strategy, success, exec_time, failure_reason) ==
    LET experience ==
            [task_type |-> task_type,
             query |-> q,
             strategy |-> strategy,
             success |-> success,
             execution_time |-> exec_time,
             failure_reason |-> failure_reason,
             timestamp |-> Len(mem.experiences) + 1,
             confidence_score |-> _calculate_confidence(strategy, success)]
        exps == Append(mem.experiences, experience)
    IN  IF learn
        THEN Memory(exps,
                    memory_update_patterns(mem.patterns, exps, experience),
                    IF success THEN _update_playbook(mem.playbook, experience)
                    ELSE mem.playbook,
                    IF success THEN mem.rag_texts + 1 ELSE mem.rag_texts)
        ELSE Memory(exps, mem.patterns, mem.playbook, mem.rag_texts)

\* the strategies that an earlier process has stored for file operations
EarlierStrategies ==
    <<<<StepB>>, <<StepB, StepB>>, <<StepA, StepB>>, <<StepB, StepA>>,
      <<StepA, StepA>>>>

RECURSIVE StoredAll(_, _)
StoredAll(mem, strategies) ==
    IF strategies = <<>> THEN mem
    ELSE StoredAll(Stored(mem, TRUE, "file_operation", "q", Head(strategies),
                          TRUE, 1, "None"),
                   Tail(strategies))

FreshMemory == Memory(<<>>, NoMemoryPatterns, NoPlaybook, 0)

\* LearningSystem.__init__: the files do not exist yet, or they are the ones
\* that an earlier process with auto-learn has written
MemInit ==
    /\ auto_learn \in BOOLEAN
    /\ \E mem \in {FreshMemory, StoredAll(FreshMemory, EarlierStrategies)} :
           /\ experiences = mem.experiences
           /\ memory_patterns = mem.patterns
           /\ playbook = mem.playbook
           /\ rag_texts = mem.rag_texts
    /\ mem_ops = 0

\* LearningSystem.store_experience
store_experience(task_type, q, strategy, success, exec_time, failure_reason) ==
    /\ mem_ops < MaxStores
    /\ mem_ops' = mem_ops + 1
    /\ LET mem == Stored(Memory(experiences, memory_patterns, playbook, rag_texts),
                         auto_learn, task_type, q, strategy, success, exec_time,
                         failure_reason)
       IN  /\ experiences' = mem.experiences
           /\ memory_patterns' = mem.patterns
           /\ playbook' = mem.playbook
           /\ rag_texts' = mem.rag_texts
    /\ UNCHANGED auto_learn
    /\ UNCHANGED <<runVars, botVars, boxVars, restVars>>

\* The process is started again with AUTO_LEARN set to learn: __init__ loads
\* the three files, which hold what the memory held
Restart(learn) ==
    /\ auto_learn' = learn
    /\ mem_ops' = mem_ops
    /\ UNCHANGED <<experiences, memory_patterns, playbook, rag_texts>>
    /\ UNCHANGED <<runVars, botVars, boxVars, restVars>>

\* histories handed to reflect_on_task
StepOk ==
    [thought |-> <<"List the workspace">>, action |-> DBash.action,
     observation |-> <<"ok">>, success |-> TRUE, confidence |-> 90]

StepFailed ==
    [thought |-> <<"List the workspace">>, action |-> DBash.action,
     observation |-> <<"exit 1">>, success |-> FALSE, confidence |-> 90]

Histories == {<<>>, <<StepFailed, StepOk>>}

QWriteCode == <<"w", "r", "i", "t", "e", " ", "s", "o", "m", "e", " ", "c", "o", "d", "e">>
QFindScript == <<"f", "i", "n", "d", " ", "a", " ", "s", "c", "r", "i", "p", "t">>
QCheckSetup == <<"c", "h", "e", "c", "k", " ", "s", "e", "t", "u", "p">>
QTest == <<"t", "e", "s", "t">>

ClassifiedQueries ==
    {QReadFile, QInstall, QHello, QWriteCode, QFindScript, QCheckSetup, QTest}

\* LearningSystem.reflect_on_task and store_learning of src/orchestrator.py,
\* called on a finished task
store_learning(q, h) ==
    /\ mem_ops < MaxStores
    /\ mem_ops' = mem_ops + 1
    /\ LET learning == reflect_on_task(q, h, "Task completed", 1) IN
       /\ learnings_file' = Append(learnings_file, learning)
       /\ rag_learnings' = rag_learnings + 1
       /\ patterns' = _update_patterns(patterns, learning)
       /\ patterns_file' = patterns'
    /\ UNCHANGED <<max_iterations, reflection_enabled, pc, query, context,
                   history, iteration, decision, action, elapsed, outcome,
                   provider, llm_calls, executor_calls, reflect_calls, rag_docs,
                   ingest_result, result, execution_time>>
    /\ UNCHANGED <<auto_learn, experiences, memory_patterns, playbook, rag_texts>>
    /\ UNCHANGED <<botVars, boxVars, restVars>>

InitMem == RunIdle /\ BotInit /\ BoxIdle /\ MemInit /\ RestIdle

NextMem ==
    \/ \E task_type \in TaskTypes, strategy \in Strategies, success \in BOOLEAN,
          exec_time \in {1, 3}, failure_reason \in {"None", "timeout"} :
           store_experience(task_type, "q", strategy, success, exec_time,
                            IF success THEN "None" ELSE failure_reason)
    \/ \E learn \in BOOLEAN : Restart(learn)
    \/ \E q \in ClassifiedQueries, h \in Histories : store_learning(q, h)

\* the two learning systems on their own
SpecMem == InitMem /\ [][NextMem]_vars

(***************************************************************************)
(* Properties of the learning systems.                                     *)
(***************************************************************************)
\* C17: for every task type the playbook holds at most five strategies, in
\* descending order of confidence, and get_best_strategy returns one of
\* maximal confidence, or None when the task type has no strategy
C17_PlaybookTopFiveSorted ==
    \A t \in TaskTypes :
        LET entries == Get(playbook.strategies, t, <<>>)
            best == get_best_strategy(playbook, t)
        IN  /\ Len(entries) <= 5
            /\ \A i, j \in 1..Len(entries) :
                   i < j => entries[i].confidence >= entries[j].confidence
            /\ IF entries = <<>>
               THEN best = NoStrategy
               ELSE /\ \E i \in 1..Len(entries) : entries[i] = best
                    /\ \A i \in 1..Len(entries) :
                           best.confidence >= entries[i].confidence

\* a sixth strategy has been stored for a task type whose playbook was full
\* and has made it into the playbook
C17_Witness ==
    /\ mem_ops > 0
    /\ "file_operation" \in DOMAIN playbook.strategies
    /\ Len(playbook.strategies["file_operation"]) = 5
    /\ experiences[Len(experiences)].task_type = "file_operation"
    /\ experiences[Len(experiences)].strategy = <<>>
    /\ playbook.strategies["file_operation"][1].strategy = <<>>
    /\ Cardinality({experiences[i].strategy : i \in 1..Len(experiences)}) > 5

\* the experiences of a task type in a log
Logged(exps, t) == {i \in 1..Len(exps) : exps[i].task_type = t}

\* a pattern that agrees with a log: count, success rate and average time
Agrees(pattern, exps, t) ==
    LET n == Cardinality(Logged(exps, t))
        successful == Cardinality({i \in Logged(exps, t) : exps[i].success})
    IN  /\ pattern.count = n
        /\ pattern.success_rate.num >= 0
        /\ pattern.success_rate.num <= pattern.success_rate.den
        /\ pattern.success_rate.num * n = successful * pattern.success_rate.den
        /\ pattern.avg_execution_time.num * n
               = TotalTime(exps, t) * pattern.avg_execution_time.den

\* C18: after every pattern update (a store with auto-learn on) the pattern
\* of the stored task type agrees with the whole experience log in its count,
\* its success rate (which lies between 0 and 1) and its average execution
\* time, whatever was stored before
C18_PatternsAgreeWithLog ==
    [][(auto_learn /\ Len(experiences') > Len(experiences))
       => LET t == experiences'[Len(experiences')].task_type IN
          /\ t \in DOMAIN memory_patterns'.task_patterns
          /\ Agrees(memory_patterns'.task_patterns[t], experiences', t)]_vars

\* C19: every persisted experience and every persisted learning has a
\* confidence score between 0 and 1 (0 and 1000 thousandths for the
\* experiences, 0 and 100 percent for the learnings)
C19_ConfidenceInUnitInterval ==
    /\ \A i \in 1..Len(experiences) :
           /\ experiences[i].confidence_score >= 0
           /\ experiences[i].confidence_score <= 1000
    /\ \A i \in 1..Len(learnings_file) :
           /\ learnings_file[i].confidence_score >= 0
           /\ learnings_file[i].confidence_score <= 100

\* a failed experience with a long strategy, an experience with the empty
\* strategy or a learning with the empty history have been persisted
C19_Witness ==
    /\ \E i \in 1..Len(experiences) :
           /\ ~experiences[i].success
           /\ Len(experiences[i].strategy) = 3
           /\ experiences[i].confidence_score = 0
    /\ \/ \E i \in 1..Len(experiences) : experiences[i].strategy = <<>>
       \/ \E i \in 1..Len(learnings_file) :
              /\ learnings_file[i].successful_strategy = <<>>
              /\ learnings_file[i].failure_modes = <<>>

\* the categories in the order in which the classifier tries them
Priority ==
    <<"file_operation", "information_retrieval", "code_generation",
      "system_setup", "analysis">>

Keywords(category) ==
    CASE category = "file_operation" ->
             {<<"f", "i", "l", "e">>, <<"r", "e", "a", "d">>, <<"w", "r", "i", "t", "e">>, <<"c", "r", "e", "a", "t", "e">>}
      [] category = "information_retrieval" ->
             {<<"s", "e", "a", "r", "c", "h">>, <<"f", "i", "n", "d">>, <<"l", "o", "o", "k">>}
      [] category = "code_generation" ->
             {<<"c", "o", "d", "e">>, <<"s", "c", "r", "i", "p", "t">>, <<"p", "r", "o", "g", "r", "a", "m">>, <<"f", "u", "n", "c", "t", "i", "o", "n">>}
      [] category = "system_setup" ->
             {<<"i", "n", "s", "t", "a", "l", "l">>, <<"s", "e", "t", "u", "p">>, <<"c", "o", "n", "f", "i", "g", "u", "r", "e">>}
      [] category = "analysis" ->
             {<<"a", "n", "a", "l", "y", "z", "e">>, <<"c", "h", "e", "c", "k">>, <<"t", "e", "s", "t">>}

Occurs(category, q) == \E kw \in Keywords(category) : Contains(Lower(q), kw)

C21_ClassifyTaskExamples ==
    \A n \in 1..Len(learnings_file) :
        /\ learnings_file[n].context = QWriteCode
               => learnings_file[n].task_type = "code_generation"
        /\ Lower(learnings_file[n].context) = Lower(QInstall)
               => learnings_file[n].task_type = "system_setup"

(***************************************************************************)
(* The Semantic Index: RAGSystem of src/orchestrator.py (chunk_text,       *)
(* add_document, query) and RAGSystem of src/rag_system.py (_chunk_text,   *)
(* add_documents, search).  A text is a sequence of characters and an      *)
(* offset counts characters from 0.  A collection of the vector store is a *)
(* dict from ids to records; distances and similarities are in percent.    *)
(* Both classes run their synchronous code on the one event loop, so no    *)
(* other call is served while add_document is chunking.                    *)
(***************************************************************************)
MaxIndexOps == 2    \* cap on the ingestion calls of one behaviour
MaxChunks == 3      \* cap on the chunks one chunk_text call gathers

SimilarityThreshold == 70

MaxResults == 5

ChunkSizes == {1, 2}
ChunkOverlaps == {0, 1, 2}

\* the contents that are ingested
Documents == {<<"a", "b">>, <<"a", " ">>}

\* what the caller attaches to a document
CallerMetadata == [source |-> "test"]

\* text[a:b] of Python, with negative offsets counted from the end
PySlice(text, a, b) ==
    LET n == Len(text)
        lo == IF a < 0 THEN (IF n + a < 0 THEN 0 ELSE n + a) ELSE Min(a, n)
        hi == IF b < 0 THEN (IF n + b < 0 THEN 0 ELSE n + b) ELSE Min(b, n)
    IN  IF hi <= lo THEN <<>> ELSE SubSeq(text, lo + 1, hi)

\* chunk.strip() is not empty
Strip(chunk) == \E i \in 1..Len(chunk) : chunk[i] # " "

\* ids numbered by the call that made them
document_ids_by_call(content, chunks) ==
    [i \in 1..Len(chunks) |-> <<"call", idx_ops, i - 1>>]

\* add_document: base_id = sha256(content)[:16], ids = base_id_0, base_id_1, ...
document_ids(content, chunks) ==
    [i \in 1..Len(chunks) |-> <<"sha256", content, i - 1>>]

\* Collection.add of the vector store: a record whose id the collection
\* already holds is left as it is, the others are inserted
CollectionAdd(coll, ids, documents, metadatas) ==
    LET new == {ids[i] : i \in 1..Len(ids)} \ DOMAIN coll
        First(id) == CHOOSE i \in 1..Len(ids) :
                         /\ ids[i] = id
                         /\ \A j \in 1..Len(ids) : ids[j] = id => i <= j
    IN  [id \in DOMAIN coll \cup new |->
            IF id \in DOMAIN coll
            THEN coll[id]
            ELSE [document |-> documents[First(id)],
                  metadata |-> metadatas[First(id)]]]

\* RAGSystem.add_document up to the call of chunk_text, and the first lines
\* of chunk_text
add_document(content) ==
    /\ idx_pc = "idle"
    /\ idx_ops < MaxIndexOps
    /\ idx_ops' = idx_ops + 1
    /\ idx_pc' = "chunking"
    /\ idx_content' = content
    /\ idx_start' = 0
    /\ idx_chunks' = <<>>
    /\ UNCHANGED <<chunk_size, chunk_overlap, collection, alo_knowledge,
                   idx_log, idx_results>>
    /\ UNCHANGED notIdxVars

\* a window that advances by the whole chunk size
chunk_text_no_overlap ==
    /\ idx_pc = "chunking"
    /\ idx_start < Len(idx_content)
    /\ idx_chunks' =
           IF Len(idx_chunks) < MaxChunks
           THEN Append(idx_chunks,
                       PySlice(idx_content, idx_start, idx_start + chunk_size))
           ELSE idx_chunks
    /\ idx_start' = idx_start + chunk_size
    /\ UNCHANGED <<chunk_size, chunk_overlap, collection, alo_knowledge,
                   idx_pc, idx_content, idx_log, idx_results, idx_ops>>
    /\ UNCHANGED notIdxVars

\* one iteration of the while loop of RAGSystem.chunk_text.  The loop runs
\* as long as its condition holds; the first MaxChunks chunks are recorded
\* and start is followed down to -len(content).
chunk_text ==
    /\ idx_pc = "chunking"
    /\ idx_start < Len(idx_content)
    /\ idx_chunks' =
           IF Len(idx_chunks) < MaxChunks
           THEN Append(idx_chunks,
                       PySlice(idx_content, idx_start, idx_start + chunk_size))
           ELSE idx_chunks
    /\ idx_start' =
           IF idx_start + chunk_size - chunk_overlap < -Len(idx_content)
           THEN -Len(idx_content)
           ELSE idx_start + chunk_size - chunk_overlap
    /\ UNCHANGED <<chunk_size, chunk_overlap, collection, alo_knowledge,
                   idx_pc, idx_content, idx_log, idx_results, idx_ops>>
    /\ UNCHANGED notIdxVars

\* the return of chunk_text and the rest of add_document: the embeddings,
\* the ids, the insertion into the collection; any exception is logged and
\* answered with False
add_document_return(embed_fails) ==
    /\ idx_pc = "chunking"
    /\ ~(idx_start < Len(idx_content))
    /\ idx_pc' = "idle"
    /\ LET ids == document_ids(idx_content, idx_chunks)
           metadatas == [i \in 1..Len(idx_chunks) |-> CallerMetadata]
       IN  IF embed_fails
           THEN /\ collection' = collection
                /\ idx_log' = Append(idx_log,
                       [op |-> "add_document", content |-> idx_content,
                        chunks |-> idx_chunks, ids |-> <<>>,
                        returned |-> "False", error |-> "embedding"])
           ELSE /\ collection' = CollectionAdd(collection, ids, idx_chunks, metadatas)
                /\ idx_log' = Append(idx_log,
                       [op |-> "add_document", content |-> idx_content,
                        chunks |-> idx_chunks, ids |-> ids,
                        returned |-> "True", error |-> ""])
    /\ UNCHANGED <<chunk_size, chunk_overlap, alo_knowledge, idx_content,
                   idx_start, idx_chunks, idx_results, idx_ops>>
    /\ UNCHANGED notIdxVars

\* the distances the store may report for a query
Distances == {30, 50}

\* Collection.query of the vector store: the n nearest records, nearest
\* first, fewer when the collection holds fewer
Nearest(coll, dist, n) ==
    LET k == Min(n, Cardinality(DOMAIN coll)) IN
    {s \in [1..k -> DOMAIN coll] :
        /\ \A i, j \in 1..k : i < j => s[i] # s[j] /\ dist[s[i]] <= dist[s[j]]
        /\ \A id \in DOMAIN coll :
               (\A i \in 1..k : s[i] # id) => \A i \in 1..k : dist[s[i]] <= dist[id]}

\* RAGSystem.query of src/orchestrator.py
rag_query(n_results, store_fails) ==
    /\ idx_pc = "idle"
    /\ IF store_fails
       THEN idx_results' = [op |-> "query", n_results |-> n_results,
                            results |-> <<>>]
       ELSE \E dist \in [DOMAIN collection -> Distances] :
            \E s \in Nearest(collection, dist, n_results) :
                idx_results' =
                    [op |-> "query", n_results |-> n_results,
                     results |-> [i \in 1..Len(s) |->
                                     [content |-> collection[s[i]].document,
                                      metadata |-> collection[s[i]].metadata,
                                      distance |-> dist[s[i]]]]]
    /\ UNCHANGED <<chunk_size, chunk_overlap, collection, alo_knowledge, idx_pc,
                   idx_content, idx_start, idx_chunks, idx_log, idx_ops>>
    /\ UNCHANGED notIdxVars

\* range(0, n, step) for a positive step
RECURSIVE RangeFrom(_, _, _)
RangeFrom(i, n, step) ==
    IF i >= n THEN <<>> ELSE <<i>> \o RangeFrom(i + step, n, step)

\* the chunks of the offsets that are not blank
RECURSIVE OffsetChunks(_, _, _, _)
OffsetChunks(offsets, text, metadata, now) ==
    IF offsets = <<>>
    THEN <<>>
    ELSE LET i == Head(offsets)
             chunk == PySlice(text, i, i + chunk_size)
             rest == OffsetChunks(Tail(offsets), text, metadata, now)
         IN  IF Strip(chunk)
             THEN <<[id |-> <<"md5", chunk, i>>,
                     text |-> chunk,
                     metadata |-> [source |-> metadata.source,
                                   chunk_index |-> i \div (chunk_size - chunk_overlap),
                                   timestamp |-> now]]>> \o rest
             ELSE rest

\* RAGSystem._chunk_text of src/rag_system.py: range raises ValueError for
\* the step 0 and is empty for a negative step
_chunk_text(text, metadata, now) ==
    LET step == chunk_size - chunk_overlap IN
    IF step = 0
    THEN [raised |-> "ValueError", chunks |-> <<>>]
    ELSE [raised |-> "",
          chunks |-> IF step < 0
                     THEN <<>>
                     ELSE OffsetChunks(RangeFrom(0, Len(text), step), text,
                                       metadata, now)]

\* RAGSystem.add_text -> add_documents of src/rag_system.py with one document
add_text(text, embed_fails) ==
    /\ idx_pc = "idle"
    /\ idx_ops < MaxIndexOps
    /\ idx_ops' = idx_ops + 1
    /\ LET chunked == _chunk_text(text, CallerMetadata, idx_ops)
           all_chunks == chunked.chunks
           ids == [i \in 1..Len(all_chunks) |-> all_chunks[i].id]
           texts == [i \in 1..Len(all_chunks) |-> all_chunks[i].text]
           metadatas == [i \in 1..Len(all_chunks) |-> all_chunks[i].metadata]
           entry(ids_, returned, error) ==
               [op |-> "add_text", content |-> text, chunks |-> texts,
                ids |-> ids_, returned |-> returned, error |-> error]
       IN  IF chunked.raised # ""
           THEN /\ alo_knowledge' = alo_knowledge
                /\ idx_log' = Append(idx_log, entry(<<>>, "raise", chunked.raised))
           ELSE IF all_chunks = <<>>
           THEN /\ alo_knowledge' = alo_knowledge
                /\ idx_log' = Append(idx_log, entry(<<>>, "0", ""))
           ELSE IF embed_fails
           THEN /\ alo_knowledge' = alo_knowledge
                /\ idx_log' = Append(idx_log, entry(<<>>, "raise", "embedding"))
           ELSE /\ alo_knowledge' = CollectionAdd(alo_knowledge, ids, texts, metadatas)
                /\ idx_log' = Append(idx_log, entry(ids, "len(all_chunks)", ""))
    /\ UNCHANGED <<chunk_size, chunk_overlap, collection, idx_pc, idx_content,
                   idx_start, idx_chunks, idx_results>>
    /\ UNCHANGED notIdxVars

\* the results of search whose similarity reaches the threshold
RECURSIVE Formatted(_, _)
Formatted(s, dist) ==
    IF s = <<>>
    THEN <<>>
    ELSE LET id == Head(s)
             similarity == 100 - dist[id]
             rest == Formatted(Tail(s), dist)
         IN  IF similarity >= SimilarityThreshold
             THEN <<[text |-> alo_knowledge[id].document,
                     metadata |-> alo_knowledge[id].metadata,
                     similarity |-> similarity,
                     id |-> id]>> \o rest
             ELSE rest

\* RAGSystem.search of src/rag_system.py; n_results 0 stands for None
search(n_results) ==
    /\ idx_pc = "idle"
    /\ LET n == IF n_results = 0 THEN MaxResults ELSE n_results IN
       \E dist \in [DOMAIN alo_knowledge -> Distances] :
       \E s \in Nearest(alo_knowledge, dist, n) :
           idx_results' = [op |-> "search", n_results |-> n,
                           results |-> Formatted(s, dist)]
    /\ UNCHANGED <<chunk_size, chunk_overlap, collection, alo_knowledge, idx_pc,
                   idx_content, idx_start, idx_chunks, idx_log, idx_ops>>
    /\ UNCHANGED notIdxVars

\* the two RAGSystem objects after __init__, under a configured chunking
IdxInit ==
    /\ chunk_size \in ChunkSizes
    /\ chunk_overlap \in ChunkOverlaps
    /\ collection = EmptyDict
    /\ alo_knowledge = EmptyDict
    /\ idx_pc = "idle"
    /\ idx_content = <<>>
    /\ idx_start = 0
    /\ idx_chunks = <<>>
    /\ idx_log = <<>>
    /\ idx_results = [op |-> "none"]
    /\ idx_ops = 0

InitIndex ==
    /\ RunIdle /\ BotInit /\ BoxIdle /\ MemIdle /\ IdxInit
    /\ jobs = [r \in Jobs |-> NoJob]
    /\ py_calls = [c \in Jobs |-> NoPyCall]
    /\ handlers = [h \in Jobs |-> NoHandler]

NextIndex ==
    \/ \E content \in Documents : add_document(content)
    \/ chunk_text
    \/ \E embed_fails \in BOOLEAN : add_document_return(embed_fails)
    \/ \E n_results \in {1, 2}, store_fails \in BOOLEAN :
           rag_query(n_results, store_fails)
    \/ \E text \in Documents, embed_fails \in BOOLEAN : add_text(text, embed_fails)
    \/ \E n_results \in {0, 1} : search(n_results)

\* the Semantic Index on its own
SpecIndex == InitIndex /\ [][NextIndex]_vars

\* chunk_text and add_document are synchronous code: the interpreter keeps
\* executing them until they return
SpecIndexFair ==
    SpecIndex /\ WF_vars(chunk_text) /\ WF_vars(\E f \in BOOLEAN : add_document_return(f))

(***************************************************************************)
(* Properties of the Semantic Index.                                       *)
(***************************************************************************)
\* an ingestion call that stored its chunks
Ingested(entry) == entry.returned \in {"True", "len(all_chunks)"}

Similarity(r) ==
    IF "similarity" \in DOMAIN r THEN r.similarity ELSE 100 - r.distance

\* C23: every result that a query of the Semantic Index returns has a
\* similarity (1 - distance) at or above the similarity threshold, at most
\* n_results results are returned, and they are in descending order of
\* similarity
C23_ResultsAboveThreshold ==
    idx_results.op \in {"query", "search"}
    => LET results == idx_results.results IN
       /\ Len(results) <= idx_results.n_results
       /\ \A i \in 1..Len(results) : Similarity(results[i]) >= SimilarityThreshold
       /\ \A i, j \in 1..Len(results) :
              i < j => Similarity(results[i]) >= Similarity(results[j])

\* C26: every call of chunk_text returns, whatever the text, the chunk size
\* and the chunk overlap are
C26_ChunkTextTerminates == (idx_pc = "chunking") ~> (idx_pc = "idle")

(***************************************************************************)
(* Two calls of ReActEngine.run in flight on one orchestrator.  Each call  *)
(* has its own local variables (query, context, history, iteration, ...);  *)
(* the LearningSystem (learnings.jsonl, patterns, patterns.json) and the   *)
(* configuration belong to the orchestrator.  The event loop may switch    *)
(* from one call to another wherever run awaits: think_and_act,            *)
(* execute_action, and rag.add_learning inside store_learning.             *)
(***************************************************************************)
JobQueries == {QReadFile, QHello}

\* the provider answers with a JSON object: a bash action or complete
JobResponses ==
    {resp \in Responses :
        /\ ~resp.raises
        /\ resp.text.fence = "none"
        /\ resp.text.body.kind = "object"
        /\ resp.text.body.obj \in {DBash, DComplete}}

\* the sandbox runs the command: exit code 0 or 1
JobSandboxResults ==
    {env \in SandboxResults : ~env.raises /\ env.output # LongOutput}

\* the execution time that datetime.now() yields
JobTime == 1

\* a history that all the calls of run share
record_step_shared(js, r, step) ==
    [j \in DOMAIN js |-> [js[j] EXCEPT !.history = Append(@, step)]]

\* run, lines 665-671: history.append on the local list of the call
record_step(js, r, step) ==
    [js EXCEPT ![r].history = Append(@, step)]

\* run, lines 601-620
run_begin(r, q) ==
    /\ jobs[r].pc = "idle"
    /\ jobs' = [jobs EXCEPT
                   ![r].pc = "loop",
                   ![r].query = q,
                   ![r].context =
                       <<"Relevant Documents:">>
                       \o [i \in 1..Min(rag_docs, 3) |-> "doc"]
                       \o <<"Previous Learnings:">>
                       \o [i \in 1..Min(rag_learnings, 2) |-> "learning"],
                   ![r].history = <<>>,
                   ![r].iteration = 0]
    /\ UNCHANGED <<runVars, botVars, boxVars, memVars, idxVars, py_calls, handlers>>

\* run, lines 622-636: think_and_act has answered
run_think(r, resp) ==
    /\ jobs[r].pc = "loop"
    /\ LoopCondition(jobs[r].iteration, max_iterations)
    /\ LET d == think_and_act(resp)
           action_dict == Get(d.value, "action", EmptyDict)
       IN  IF d.is_dict
           THEN jobs' = [jobs EXCEPT
                            ![r].pc = "decided",
                            ![r].decision = d.value,
                            ![r].action =
                                [action_type |->
                                     Get(action_dict, "action_type", "complete"),
                                 parameters |->
                                     Get(action_dict, "parameters", EmptyDict)]]
           ELSE jobs' = [jobs EXCEPT
                            ![r].pc = "done",
                            ![r].outcome = Raised("AttributeError")]
    /\ UNCHANGED <<runVars, botVars, boxVars, memVars, idxVars, py_calls, handlers>>

\* run, lines 639-659, the complete branch: without reflection the return;
\* with it reflect_on_task and store_learning up to await rag.add_learning
run_complete(r) ==
    /\ jobs[r].pc = "decided"
    /\ jobs[r].action.action_type = "complete"
    /\ LET res == Get(jobs[r].action.parameters, "result", "Task completed")
           learning == reflect_on_task(jobs[r].query, jobs[r].history, res, JobTime)
       IN  IF reflection_enabled
           THEN /\ learnings_file' = Append(learnings_file, learning)
                /\ jobs' = [jobs EXCEPT ![r].pc = "storing",
                                        ![r].result = res,
                                        ![r].learning = learning]
           ELSE /\ learnings_file' = learnings_file
                /\ jobs' = [jobs EXCEPT
                               ![r].pc = "done",
                               ![r].result = res,
                               ![r].outcome =
                                   Returned(TRUE, res, jobs[r].iteration + 1,
                                            JobTime, jobs[r].history)]
    /\ UNCHANGED <<max_iterations, reflection_enabled, pc, query, context,
                   history, iteration, decision, action, elapsed, outcome,
                   provider, llm_calls, executor_calls, reflect_calls,
                   patterns, patterns_file, rag_learnings, rag_docs,
                   ingest_result, result, execution_time>>
    /\ UNCHANGED <<botVars, boxVars, memVars, idxVars, py_calls, handlers>>

\* store_learning after rag.add_learning has answered: _update_patterns,
\* which saves the patterns, and the return of run
run_store(r) ==
    /\ jobs[r].pc = "storing"
    /\ rag_learnings' = rag_learnings + 1
    /\ patterns' = _update_patterns(patterns, jobs[r].learning)
    /\ patterns_file' = patterns'
    /\ jobs' = [jobs EXCEPT
                   ![r].pc = "done",
                   ![r].outcome =
                       Returned(TRUE, jobs[r].result, jobs[r].iteration + 1,
                                JobTime, jobs[r].history)]
    /\ UNCHANGED <<max_iterations, reflection_enabled, pc, query, context,
                   history, iteration, decision, action, elapsed, outcome,
                   provider, llm_calls, executor_calls, reflect_calls,
                   learnings_file, rag_docs, ingest_result, result,
                   execution_time>>
    /\ UNCHANGED <<botVars, boxVars, memVars, idxVars, py_calls, handlers>>

\* run, lines 661-677: execute_action has answered
run_dispatch(r, env) ==
    /\ jobs[r].pc = "decided"
    /\ jobs[r].action.action_type # "complete"
    /\ LET res == execute_action(jobs[r].action, env)
           step == [thought |-> Get(jobs[r].decision, "thought", <<>>),
                    action |-> jobs[r].action,
                    observation |-> res.observation,
                    success |-> res.success,
                    confidence |-> Get(jobs[r].decision, "confidence", 50)]
           appended == record_step(jobs, r, step)
       IN  jobs' = [appended EXCEPT
                       ![r].context =
                           IF res.success /\ ObsLen(res.observation) < ContextObsLimit
                           THEN @ \o <<"Latest observation: ">> \o res.observation
                           ELSE @,
                       ![r].iteration = @ + 1,
                       ![r].pc = "loop"]
    /\ UNCHANGED <<runVars, botVars, boxVars, memVars, idxVars, py_calls, handlers>>

\* run, lines 679-690: the loop condition fails
run_exhaust(r) ==
    /\ jobs[r].pc = "loop"
    /\ ~LoopCondition(jobs[r].iteration, max_iterations)
    /\ jobs' = [jobs EXCEPT
                   ![r].pc = "done",
                   ![r].outcome =
                       MaxIterationsResult(jobs[r].iteration, JobTime,
                                           jobs[r].history)]
    /\ UNCHANGED <<runVars, botVars, boxVars, memVars, idxVars, py_calls, handlers>>

InitJobs ==
    /\ RunInit /\ BotInit /\ BoxIdle /\ MemIdle /\ RestIdle

NextJobs ==
    \/ \E r \in Jobs, q \in JobQueries : run_begin(r, q)
    \/ \E r \in Jobs, resp \in JobResponses : run_think(r, resp)
    \/ \E r \in Jobs : run_complete(r)
    \/ \E r \in Jobs : run_store(r)
    \/ \E r \in Jobs, env \in JobSandboxResults : run_dispatch(r, env)
    \/ \E r \in Jobs : run_exhaust(r)

\* concurrent runs on one orchestrator
SpecJobs == InitJobs /\ [][NextJobs]_vars

(***************************************************************************)
(* Properties of concurrent runs.                                          *)
(***************************************************************************)
\* C24: the history of a run changes only when that run starts (it becomes
\* empty) and when that run has dispatched an action (the step with that
\* action is appended at the end, and no other run's variables change); the
\* history a run returns is the history it gathered
C24_HistoryOwnedByRun ==
    [][\A r \in Jobs :
          /\ jobs'[r].history # jobs[r].history
             => \/ /\ jobs[r].pc = "idle"
                   /\ jobs'[r].history = <<>>
                \/ /\ jobs[r].pc = "decided"
                   /\ Len(jobs'[r].history) = Len(jobs[r].history) + 1
                   /\ SubSeq(jobs'[r].history, 1, Len(jobs[r].history))
                          = jobs[r].history
                   /\ jobs'[r].history[Len(jobs'[r].history)].action
                          = jobs[r].action
                   /\ jobs'[r].iteration = jobs[r].iteration + 1
                   /\ \A s \in Jobs \ {r} : jobs'[s] = jobs[s]
          /\ (jobs'[r].pc = "done" /\ jobs[r].pc # "done"
              /\ jobs'[r].outcome.kind = "return")
             => /\ jobs'[r].outcome.history = jobs[r].history
                /\ Len(jobs[r].history) = jobs[r].iteration]_vars

\* one run has returned a history of one step while the other run, started
\* before that return, has a step of its own
C24_Witness ==
    /\ jobs[1].pc = "done"
    /\ jobs[1].outcome.kind = "return"
    /\ Len(jobs[1].outcome.history) = 1
    /\ jobs[2].pc = "decided"
    /\ Len(jobs[2].history) = 1
    /\ jobs[2].query # jobs[1].query
    /\ jobs[2].history # jobs[1].outcome.history

\* the learnings of a task type in learnings.jsonl
LearningsOf(t) ==
    {n \in 1..Len(learnings_file) : learnings_file[n].task_type = t}

\* the entry that _update_patterns appends for a learning
PatternEntry(learning) ==
    [strategy |-> learning.successful_strategy,
     confidence |-> learning.confidence_score]

\* C25: once no store is under way, the patterns in memory and in
\* patterns.json hold, for every task type, one entry per stored learning
\* of that type, the entry of each of them, also when the stores of two
\* runs overlapped
C25_NoLostUpdate ==
    (\A r \in Jobs : jobs[r].pc # "storing")
    => /\ patterns_file = patterns
       /\ \A n \in 1..Len(learnings_file) :
              learnings_file[n].task_type \in DOMAIN patterns.success_patterns
       /\ \A t \in DOMAIN patterns.success_patterns :
              LET entries == patterns.success_patterns[t] IN
              /\ Len(entries) = Cardinality(LearningsOf(t))
              /\ \A n \in LearningsOf(t) :
                     Cardinality({i \in 1..Len(entries) :
                                     entries[i] = PatternEntry(learnings_file[n])})
                     = Cardinality({m \in LearningsOf(t) :
                                       PatternEntry(learnings_file[m])
                                       = PatternEntry(learnings_file[n])})

\* two runs of the same task type have stored their learnings, and the
\* second to append to learnings.jsonl was the first to update the patterns
C25_Witness ==
    /\ \A r \in Jobs : jobs[r].pc = "done" /\ jobs[r].outcome.kind = "return"
    /\ Len(learnings_file) = 2
    /\ learnings_file[1].task_type = learnings_file[2].task_type
    /\ learnings_file[1] # learnings_file[2]
    /\ LET entries == patterns.success_patterns[learnings_file[1].task_type] IN
       /\ Len(entries) = 2
       /\ entries[1] = PatternEntry(learnings_file[2])
       /\ entries[2] = PatternEntry(learnings_file[1])
       /\ entries[1] # entries[2]

(***************************************************************************)
(* SecureExecutor.execute_python with two calls in flight.  A call writes  *)
(* its script, awaits the spawn of python3, awaits the exit of the         *)
(* subprocess and removes the script; python3 opens the script some time   *)
(* after it has been spawned.                                              *)
(***************************************************************************)
CodeOne == <<"print(1)">>
CodeTwo == <<"print(2)">>

PyCodes == {CodeOne, CodeTwo}

\* hashlib.sha256(code.encode()).hexdigest()[:8]
code_hash(code) == IF code = CodeOne THEN "d287bb7f" ELSE "fc92339e"

\* self.workspace_path / f"temp_{code_hash}.py"
code_file(code) == Join(workspace_path, <<"temp_", code_hash(code), ".py">>)

\* the file that python3, started in the workspace directory, opens for the
\* script name it was given
ScriptSeenBySubprocess(code) ==
    IF IsAbs(code_file(code))
    THEN Resolve(code_file(code))
    ELSE Resolve(Join(Join(Cwd, workspace_path), code_file(code)))

\* code_file.unlink()
Unlink(fs, resolved) == [f \in DOMAIN fs \ {resolved} |-> fs[f]]

\* the finally clause: if code_file.exists(): code_file.unlink()
Cleanup(fs, code) ==
    IF Resolve(code_file(code)) \in DOMAIN fs
    THEN Unlink(fs, Resolve(code_file(code)))
    ELSE fs

PyReturn(success, output) ==
    [kind |-> "return", success |-> success, output |-> output]

\* execute_python up to the await of create_subprocess_exec; io_fails:
\* write_text raises
execute_python(c, code, io_fails) ==
    /\ py_calls[c].pc = "idle"
    /\ invocations' = invocations + 1
    /\ IF io_fails
       THEN LET error == Text(<<"OSError">>, 7) IN
            /\ audit_log' = audit(audit_log, "python_execute", [code |-> code],
                                  error, FALSE)
            /\ files' = Cleanup(files, code)
            /\ py_calls' = [py_calls EXCEPT
                               ![c].pc = "done",
                               ![c].code = code,
                               ![c].returned = PyReturn(FALSE, error)]
       ELSE /\ files' = WriteText(files, Resolve(code_file(code)), code)
            /\ py_calls' = [py_calls EXCEPT ![c].pc = "spawning",
                                            ![c].code = code]
            /\ UNCHANGED audit_log
    /\ UNCHANGED <<safe_mode, workspace_path, code_execution_enabled, box_last,
                   box_pc, box_proc, box_result>>
    /\ UNCHANGED <<runVars, botVars, memVars, idxVars, jobs, handlers>>

\* create_subprocess_exec has answered; spawn_fails: it raises
create_subprocess_exec(c, spawn_fails) ==
    /\ py_calls[c].pc = "spawning"
    /\ IF spawn_fails
       THEN LET error == Text(<<"FileNotFoundError">>, 17) IN
            /\ audit_log' = audit(audit_log, "python_execute",
                                  [code |-> py_calls[c].code], error, FALSE)
            /\ files' = Cleanup(files, py_calls[c].code)
            /\ py_calls' = [py_calls EXCEPT
                               ![c].pc = "done",
                               ![c].returned = PyReturn(FALSE, error)]
       ELSE /\ py_calls' = [py_calls EXCEPT ![c].pc = "running",
                                            ![c].proc = "started"]
            /\ UNCHANGED <<audit_log, files>>
    /\ UNCHANGED <<safe_mode, workspace_path, code_execution_enabled,
                   invocations, box_last, box_pc, box_proc, box_result>>
    /\ UNCHANGED <<runVars, botVars, memVars, idxVars, jobs, handlers>>

\* the subprocess: python3 opens the script it was given
python3(c) ==
    /\ py_calls[c].pc = "running"
    /\ py_calls[c].proc = "started"
    /\ LET script == ScriptSeenBySubprocess(py_calls[c].code) IN
       py_calls' = [py_calls EXCEPT
                       ![c].proc = IF script \in DOMAIN files
                                   THEN "loaded" ELSE "no_file",
                       ![c].script = IF script \in DOMAIN files
                                     THEN files[script] ELSE <<>>]
    /\ UNCHANGED boxVars
    /\ UNCHANGED <<runVars, botVars, memVars, idxVars, jobs, handlers>>

\* process.communicate() has answered: the subprocess has exited, with the
\* return code of the script or with 2 when python3 could not open it; the
\* audit record, the return and the finally clause
py_communicate(c, returncode) ==
    /\ py_calls[c].pc = "running"
    /\ py_calls[c].proc \in {"loaded", "no_file"}
    /\ LET code == py_calls[c].code
           exited == IF py_calls[c].proc = "no_file" THEN 2 ELSE returncode
           output == IF py_calls[c].proc = "no_file"
                     THEN Text(<<"can't open file">>, 15)
                     ELSE Text(<<"output of", py_calls[c].script>>, 1)
           success == exited = 0
       IN  /\ audit_log' = audit(audit_log, "python_execute", [code |-> code],
                                 output, success)
           /\ files' = Cleanup(files, code)
           /\ py_calls' = [py_calls EXCEPT
                              ![c].pc = "done",
                              ![c].proc = "exited",
                              ![c].returned = PyReturn(success, output)]
    /\ UNCHANGED <<safe_mode, workspace_path, code_execution_enabled,
                   invocations, box_last, box_pc, box_proc, box_result>>
    /\ UNCHANGED <<runVars, botVars, memVars, idxVars, jobs, handlers>>

InitPython == InitBox

NextPython ==
    \/ \E c \in Jobs, code \in PyCodes, io_fails \in BOOLEAN :
           execute_python(c, code, io_fails)
    \/ \E c \in Jobs, spawn_fails \in BOOLEAN : create_subprocess_exec(c, spawn_fails)
    \/ \E c \in Jobs : python3(c)
    \/ \E c \in Jobs, returncode \in {0, 1} : py_communicate(c, returncode)

\* concurrent script executions of SecureExecutor
SpecPython == InitPython /\ [][NextPython]_vars

\* C27: from the spawn of a call's subprocess until its exit the script
\* file of the call exists and holds the code of the call
C27_ScriptKeptWhileRunning ==
    \A c \in Jobs :
        py_calls[c].pc = "running"
        => /\ Resolve(code_file(py_calls[c].code)) \in DOMAIN files
           /\ files[Resolve(code_file(py_calls[c].code))] = py_calls[c].code

\* C30: read_file and write_file find a path valid exactly when the file it
\* denotes lies inside the workspace directory, whether the workspace and
\* the path are absolute or relative
C30_ValidatePathMatchesWorkspace ==
    [][(/\ invocations' = invocations + 1
        /\ box_last'.op \in {"read_file", "write_file"})
       => (box_result'.output.of # <<"Path outside workspace">>
           <=> Inside(Resolve(box_last'.filepath)))]_vars

(***************************************************************************)
(* Task requests of the chat front end (src/telegram_bot.py).  Every       *)
(* update is served by a call of its handler; handler h of Jobs runs its   *)
(* task as run h of the section above.  A handler gives up control at its  *)
(* awaits only: the status message, the typing indicator, execute_task and *)
(* the message edits.  Whether the library serves an update while an       *)
(* earlier handler is still awaiting is its choice, so both orders are     *)
(* behaviours; cmd_cancel is the action defined with the bot above.        *)
(***************************************************************************)
\* the handler has marked its user and has not returned
InFlight(h) == handlers[h].pc \in {"status", "running", "editing", "except"}

\* _execute_task, lines 262-264: self.active_tasks.pop(user_id, None)
finally(tasks, user_id) == tasks \ {user_id}

\* _execute_task, lines 180-193: a busy user is refused, else the user is
\* marked and the status message is sent
_execute_task(h, u) ==
    /\ handlers[h].pc = "idle"
    /\ IF u \in active_tasks
       THEN /\ handlers' = [handlers EXCEPT ![h].pc = "done",
                                            ![h].user = u,
                                            ![h].returned = "already_active"]
            /\ bot_reply' = "already_active"
            /\ UNCHANGED active_tasks
       ELSE /\ handlers' = [handlers EXCEPT ![h].pc = "status", ![h].user = u]
            /\ active_tasks' = active_tasks \cup {u}
            /\ UNCHANGED bot_reply
    /\ UNCHANGED <<task_user, cancel_issued>>
    /\ UNCHANGED <<runVars, boxVars, memVars, idxVars, jobs, py_calls>>

\* _execute_task, lines 196-201: await message.reply_text(...), before the
\* try statement: an exception of the call leaves the handler at once
reply_text(h, fails) ==
    /\ handlers[h].pc = "status"
    /\ IF fails
       THEN /\ handlers' = [handlers EXCEPT ![h].pc = "done",
                                            ![h].returned = "raise"]
            /\ UNCHANGED bot_reply
       ELSE /\ handlers' = [handlers EXCEPT ![h].pc = "running"]
            /\ bot_reply' = "executing"
    /\ UNCHANGED <<active_tasks, task_user, cancel_issued>>
    /\ UNCHANGED <<runVars, boxVars, memVars, idxVars, jobs, py_calls>>

\* _execute_task, lines 203-205: await message.chat.send_action raises
send_action(h) ==
    /\ handlers[h].pc = "running"
    /\ jobs[h].pc = "idle"
    /\ handlers' = [handlers EXCEPT ![h].pc = "except"]
    /\ UNCHANGED botVars
    /\ UNCHANGED <<runVars, boxVars, memVars, idxVars, jobs, py_calls>>

\* _execute_task, lines 205-208: the typing indicator is sent and
\* self.orchestrator.execute_task(task_description) enters run
execute_task(h, q) ==
    /\ handlers[h].pc = "running"
    /\ run_begin(h, q)

\* _execute_task, lines 208-234: execute_task has returned and the response
\* is formatted, or it has raised
format_result(h) ==
    /\ handlers[h].pc = "running"
    /\ jobs[h].pc = "done"
    /\ handlers' = [handlers EXCEPT
                       ![h].pc = IF jobs[h].outcome.kind = "return"
                                 THEN "editing" ELSE "except"]
    /\ UNCHANGED botVars
    /\ UNCHANGED <<runVars, boxVars, memVars, idxVars, jobs, py_calls>>

\* _execute_task, lines 237-256 and 262-264: await status_msg.edit_text and
\* the lines that send a file have answered, then the finally clause; an
\* exception goes to the except clause
edit_text(h, fails) ==
    /\ handlers[h].pc = "editing"
    /\ IF fails
       THEN /\ handlers' = [handlers EXCEPT ![h].pc = "except"]
            /\ UNCHANGED <<active_tasks, bot_reply>>
       ELSE /\ handlers' = [handlers EXCEPT ![h].pc = "done",
                                            ![h].returned = "result"]
            /\ active_tasks' = finally(active_tasks, handlers[h].user)
            /\ bot_reply' = "result"
    /\ UNCHANGED <<task_user, cancel_issued>>
    /\ UNCHANGED <<runVars, boxVars, memVars, idxVars, jobs, py_calls>>

\* _execute_task, lines 258-264: the except clause has shown the error, or
\* its edit_text has raised; the finally clause runs in both cases
except_edit_text(h, fails) ==
    /\ handlers[h].pc = "except"
    /\ handlers' = [handlers EXCEPT
                       ![h].pc = "done",
                       ![h].returned = IF fails THEN "raise" ELSE "error"]
    /\ active_tasks' = finally(active_tasks, handlers[h].user)
    /\ bot_reply' = IF fails THEN bot_reply ELSE "error"
    /\ UNCHANGED <<task_user, cancel_issued>>
    /\ UNCHANGED <<runVars, boxVars, memVars, idxVars, jobs, py_calls>>

\* the task that the requests ask for
TaskQueries == {QHello}

\* the runs of this section are configured with MAX_ITERATIONS=1
InitTasks == InitJobs /\ max_iterations = 1

\* the steps a handler takes once its request is being served
HandlerStep ==
    \/ \E h \in Jobs, fails \in BOOLEAN : reply_text(h, fails)
    \/ \E h \in Jobs : send_action(h)
    \/ \E h \in Jobs, q \in TaskQueries : execute_task(h, q)
    \/ \E r \in Jobs, resp \in JobResponses : run_think(r, resp)
    \/ \E r \in Jobs : run_complete(r)
    \/ \E r \in Jobs : run_store(r)
    \/ \E r \in Jobs, env \in JobSandboxResults : run_dispatch(r, env)
    \/ \E r \in Jobs : run_exhaust(r)
    \/ \E h \in Jobs : format_result(h)
    \/ \E h \in Jobs, fails \in BOOLEAN : edit_text(h, fails)
    \/ \E h \in Jobs, fails \in BOOLEAN : except_edit_text(h, fails)

NextTasks ==
    \/ \E h \in Jobs, u \in Users : _execute_task(h, u)
    \/ \E u \in Users : cmd_cancel(u)
    \/ HandlerStep

SpecTasks == InitTasks /\ [][NextTasks]_vars

\* The event loop resumes a handler whose awaited call has answered or has
\* failed; the users owe the bot neither a request nor a /cancel.
SpecTasksFair == SpecTasks /\ WF_vars(HandlerStep)

\* C28: at any time at most one task run is in flight per user, also after
\* the user has issued /cancel
C28_OneRunPerUser ==
    \A h \in Jobs, g \in Jobs :
        (h # g /\ InFlight(h) /\ InFlight(g)) =>
            handlers[h].user # handlers[g].user

\* C29: a marker set for a user by a task request is eventually removed,
\* whichever step after the marking fails
C29_MarkerEventuallyRemoved ==
    \A u \in Users : (u \in active_tasks) ~> (u \notin active_tasks)

(***************************************************************************)
(* ActionExecutor._python_execute (src/action_executor.py): the script is  *)
(* written to a file that tempfile names, run with subprocess.run and      *)
(* removed by the finally clause.  The calls are synchronous.              *)
(***************************************************************************)
\* the names NamedTemporaryFile may draw; it draws one that is not in use
TempNames == {<<"tmp", "a1", ".py">>, <<"tmp", "b2", ".py">>}

\* NamedTemporaryFile(..., suffix='.py', delete=False, dir=str(self.workspace))
TempFile(name) == Resolve(Join(workspace_path, name))

\* _python_execute, lines 105-122, up to subprocess.run.  write_fails:
\* f.write(code) raises inside the with statement, which is entered before
\* the try statement; execute (lines 62-69) turns the exception into a
\* failed observation
_python_execute(code, name, write_fails, proc) ==
    /\ box_pc = "idle"
    /\ IF ~code_execution_enabled
       THEN /\ box_last' = [op |-> "_python_execute", code |-> code,
                            created |-> <<>>]
            /\ box_result' = BoxReturn(FALSE, Text(<<"Code execution is disabled">>, 26))
            /\ UNCHANGED <<files, box_pc, box_proc>>
       ELSE /\ TempFile(name) \notin DOMAIN files
            /\ box_last' = [op |-> "_python_execute", code |-> code,
                            created |-> TempFile(name)]
            /\ IF write_fails
               THEN /\ files' = WriteText(files, TempFile(name), <<>>)
                    /\ box_result' =
                           BoxReturn(FALSE, Text(<<"UnicodeEncodeError">>, 18))
                    /\ UNCHANGED <<box_pc, box_proc>>
               ELSE IF proc.kind = "spawn_error"
               THEN /\ files' = files
                    /\ box_result' = BoxReturn(FALSE, proc.output)
                    /\ UNCHANGED <<box_pc, box_proc>>
               ELSE /\ files' = WriteText(files, TempFile(name), code)
                    /\ box_pc' = "waiting"
                    /\ box_proc' = proc
                    /\ box_result' = NoResult
    /\ UNCHANGED <<safe_mode, workspace_path, code_execution_enabled,
                   audit_log, invocations>>
    /\ UNCHANGED <<runVars, botVars, memVars, restVars>>

\* _python_execute, lines 116-139: subprocess.run returns when the script
\* has exited or raises TimeoutExpired; the finally clause unlinks temp_file
python_subprocess_run ==
    /\ box_pc = "waiting"
    /\ box_last.op = "_python_execute"
    /\ box_result' =
           IF box_proc.kind = "exit"
           THEN BoxReturn(box_proc.returncode = 0, box_proc.output)
           ELSE BoxReturn(FALSE, Text(<<"Execution timed out">>, 19))
    /\ files' = Unlink(files, box_last.created)
    /\ box_pc' = "idle"
    /\ box_proc' = NoProc
    /\ UNCHANGED <<safe_mode, workspace_path, code_execution_enabled,
                   audit_log, invocations, box_last>>
    /\ UNCHANGED <<runVars, botVars, memVars, restVars>>

InitPythonExecute == InitActionExecutor

NextPythonExecute ==
    \/ \E code \in PyCodes, name \in TempNames, write_fails \in BOOLEAN,
          proc \in ProcOutcomes : _python_execute(code, name, write_fails, proc)
    \/ python_subprocess_run

\* script executions of ActionExecutor
SpecPythonExecute == InitPythonExecute /\ [][NextPythonExecute]_vars

\* C31: when a script-execution action has returned, on whichever exit
\* path, the temporary script file it created is no longer in the workspace
C31_TempScriptRemoved ==
    (box_pc = "idle" /\ box_last.op = "_python_execute")
        => box_last.created \notin DOMAIN files

(***************************************************************************)
(* chunk_text of RAGSystem (src/orchestrator.py) over windows of up to     *)
(* three characters, reached through add_document.                         *)
(***************************************************************************)
WindowSizes == {1, 2, 3}
WindowOverlaps == {0, 1, 2}
WindowTexts == {<<"a", "b">>, <<"a", "b", "c">>}

InitChunking ==
    /\ RunIdle /\ BotInit /\ BoxIdle /\ MemIdle
    /\ chunk_size \in WindowSizes
    /\ chunk_overlap \in WindowOverlaps
    /\ collection = EmptyDict
    /\ alo_knowledge = EmptyDict
    /\ idx_pc = "idle"
    /\ idx_content = <<>>
    /\ idx_start = 0
    /\ idx_chunks = <<>>
    /\ idx_log = <<>>
    /\ idx_results = [op |-> "none"]
    /\ idx_ops = 0
    /\ jobs = [r \in Jobs |-> NoJob]
    /\ py_calls = [c \in Jobs |-> NoPyCall]
    /\ handlers = [h \in Jobs |-> NoHandler]

NextChunking ==
    \/ \E content \in WindowTexts : add_document(content)
    \/ chunk_text
    \/ \E embed_fails \in BOOLEAN : add_document_return(embed_fails)

SpecChunking == InitChunking /\ [][NextChunking]_vars

\* the last o characters of a chunk, the whole chunk if it is shorter
LastChars(chunk, o) ==
    IF Len(chunk) <= o THEN chunk ELSE SubSeq(chunk, Len(chunk) - o + 1, Len(chunk))

\* the first o characters of a chunk, the whole chunk if it is shorter
FirstChars(chunk, o) ==
    IF Len(chunk) <= o THEN chunk ELSE SubSeq(chunk, 1, o)

\* C32 as stated: in every pair of consecutive chunks that chunk_text has
\* returned the last chunk_overlap characters of the earlier chunk are the
\* first chunk_overlap characters of the later one, and a text longer than
\* chunk_size yields more than one chunk
C32_ConsecutiveChunksOverlap ==
    \A n \in 1..Len(idx_log) :
        LET chunks == idx_log[n].chunks IN
        /\ \A i \in 1..(Len(chunks) - 1) :
               LastChars(chunks[i], chunk_overlap)
                   = FirstChars(chunks[i + 1], chunk_overlap)
        /\ Len(idx_log[n].content) > chunk_size => Len(chunks) > 1

\* C32, amended: the overlap is shared by every pair of consecutive chunks
\* whose later chunk has at least chunk_overlap characters (a chunk at the
\* end of the text may be shorter), and a text longer than chunk_size
\* yields more than one chunk
C32_FullChunksOverlap ==
    \A n \in 1..Len(idx_log) :
        LET chunks == idx_log[n].chunks IN
        /\ \A i \in 1..(Len(chunks) - 1) :
               Len(chunks[i + 1]) >= chunk_overlap
               => LastChars(chunks[i], chunk_overlap)
                      = FirstChars(chunks[i + 1], chunk_overlap)
        /\ Len(idx_log[n].content) > chunk_size => Len(chunks) > 1

\* chunk_text has cut "abc" with chunk_size 2 and chunk_overlap 1 into
\* "ab", "bc" and "c"
C32_Witness ==
    /\ chunk_size = 2
    /\ chunk_overlap = 1
    /\ Len(idx_log) > 0
    /\ idx_log[1].content = <<"a", "b", "c">>
    /\ idx_log[1].chunks = <<<<"a", "b">>, <<"b", "c">>, <<"c">>>>

\* the stores of both learning systems, the learnings being those of one query
NextStore ==
    \/ \E task_type \in TaskTypes, strategy \in Strategies, success \in BOOLEAN,
          exec_time \in {1, 3}, failure_reason \in {"None", "timeout"} :
           store_experience(task_type, "q", strategy, success, exec_time,
                            IF success THEN "None" ELSE failure_reason)
    \/ \E learn \in BOOLEAN : Restart(learn)
    \/ \E h \in Histories : store_learning(QHello, h)

SpecStore == InitMem /\ [][NextStore]_vars

\* a step of store_experience
StoreExperienceStep ==
    mem_ops' = mem_ops + 1 /\ learnings_file' = learnings_file

Hashes(entries) == {entries[i].hash : i \in 1..Len(entries)}

\* C34: no two playbook entries of a task type share a strategy hash; a
\* proposal whose hash is present leaves the entries of the task type as
\* they are, and when the entries change the hash was absent, the new
\* entry has been inserted and the list is sorted by descending confidence
\* and holds at most 5 entries
C34_PlaybookHashesUnique ==
    [][StoreExperienceStep =>
       LET experience == experiences'[Len(experiences')]
           hash == strategy_hash(experience.strategy)
           before == Get(playbook.strategies, experience.task_type, <<>>)
           after == Get(playbook'.strategies, experience.task_type, <<>>)
       IN  /\ \A t \in DOMAIN playbook'.strategies :
                  Cardinality(Hashes(playbook'.strategies[t]))
                      = Len(playbook'.strategies[t])
           /\ hash \in Hashes(before) => after = before
           /\ after # before =>
                  /\ hash \notin Hashes(before)
                  /\ Hashes(after) \subseteq Hashes(before) \cup {hash}
                  /\ Len(after) <= PlaybookLimit
                  /\ \A i, j \in 1..Len(after) :
                         i < j => after[i].confidence >= after[j].confidence
      ]_vars

\* the same successful strategy has been stored twice for a task type with
\* auto-learn on, and the playbook holds it once
C34_Witness ==
    /\ Len(experiences) = 2
    /\ experiences[1].success /\ experiences[2].success
    /\ experiences[1].task_type = experiences[2].task_type
    /\ experiences[1].strategy = experiences[2].strategy
    /\ Get(memory_patterns.task_patterns, experiences[1].task_type,
           NewPattern).count = 2
    /\ Len(Get(playbook.strategies, experiences[1].task_type, <<>>)) = 1

(***************************************************************************)
(* The Learning that a run persists, against the history of the run.       *)
(***************************************************************************)
\* the steps of the history that succeeded, and those that failed
SucceededSteps == SelectSeq(history, LAMBDA s : s.success)
FailedSteps == SelectSeq(history, LAMBDA s : ~s.success)

\* C35: the Learning that reflect_on_task persists has as strategy exactly
\* the actions of the history steps that succeeded, in history order, and as
\* failure_modes exactly the observations of the steps that failed, so the
\* two lengths add up to the length of the history.
C35_StrategyPartitionsHistory ==
    [][learnings_file' # learnings_file =>
          LET l == learnings_file'[Len(learnings_file')] IN
          /\ l.successful_strategy =
                 [i \in 1..Len(SucceededSteps) |-> SucceededSteps[i].action]
          /\ l.failure_modes =
                 [i \in 1..Len(FailedSteps) |-> FailedSteps[i].observation]
          /\ Len(l.successful_strategy) + Len(l.failure_modes) = Len(history)]_vars

\* a run that persisted a Learning after a step that succeeded and a step
\* that failed
C35_Witness ==
    /\ RunEnded
    /\ learnings_file # <<>>
    /\ Len(history) >= 2
    /\ SucceededSteps # <<>>
    /\ FailedSteps # <<>>
    /\ learnings_file[Len(learnings_file)].successful_strategy # <<>>
    /\ learnings_file[Len(learnings_file)].failure_modes # <<>>

\* Runs long enough to complete after several steps: max_iterations one above
\* the other runs', reflection enabled, and a provider that answers with a
\* command, a search, an unsupported action or the completion.
ReflectResponses ==
    {[raises |-> FALSE, error |-> "",
      text |-> [fence |-> "none", body |-> [kind |-> "object", obj |-> d]]] :
        d \in {DBash, DRag, DUnknown, DComplete}}

InitReflect ==
    /\ max_iterations = MaxIter + 1
    /\ reflection_enabled = TRUE
    /\ RunFresh
    /\ BotInit /\ BoxIdle /\ MemIdle /\ RestIdle

NextReflect ==
    \/ StartRun(QHello, FALSE)
    \/ \E resp \in ReflectResponses : Think(resp, 0)
    \/ Complete
    \/ \E persist \in {"ok", "log"} : Reflect(persist, FALSE)
    \/ \E env \in SandboxResults : Dispatch(env)
    \/ Exhaust

SpecReflect == InitReflect /\ [][NextReflect]_vars

(***************************************************************************)
(* Decisions without an action or without an action type.                  *)
(***************************************************************************)
\* the decision of this iteration is a JSON object without an 'action' field
\* or with an action without 'action_type'
MissingAction ==
    /\ pc \in {"decided", "reflect", "done"}
    /\ LastKind = "complete"
    /\ \/ "action" \notin DOMAIN decision
       \/ "action_type" \notin DOMAIN decision.action

\* C36: a provider response that parses as a JSON object without an 'action'
\* field, or with an action without 'action_type', is treated as a complete
\* action: the run ends in that iteration with success=true and the result
\* 'Task completed', and no step is added to the history or dispatched to
\* the sandbox.
C36_MissingActionCompletes ==
    /\ [](MissingAction =>
             /\ action.action_type = "complete"
             /\ llm_calls = iteration + 1
             /\ Len(history) = iteration
             /\ RunEnded =>
                    outcome = Returned(TRUE, "Task completed", iteration + 1,
                                       execution_time, history))
    /\ [][MissingAction =>
             /\ history' = history
             /\ executor_calls' = executor_calls
             /\ llm_calls' = llm_calls]_vars

(***************************************************************************)
(* The complete action: run intercepts it, and execute_action, called on   *)
(* its own as the tests call it, answers it without the executor.          *)
(***************************************************************************)
DirectActions ==
    {DComplete.action, DCompleteNoResult.action, DBash.action, DUnknown.action}

\* ReActEngine.execute_action called on an engine with no run in flight;
\* outcome keeps the pair it returned
execute_action_call(a, env) ==
    /\ pc = "idle"
    /\ executor_calls < MaxOps
    /\ action' = a
    /\ LET r == execute_action(a, env) IN
       /\ executor_calls' = executor_calls + r.executor
       /\ outcome' = [kind |-> "execute_action", success |-> r.success,
                      observation |-> r.observation]
    /\ UNCHANGED <<max_iterations, reflection_enabled, pc, query, context,
                   history, iteration, decision, elapsed, provider, llm_calls,
                   reflect_calls, learnings_file, patterns, patterns_file,
                   rag_learnings, rag_docs, ingest_result, result,
                   execution_time>>
    /\ UNCHANGED notRunVars

NextExecuteAction ==
    \/ NextReflect
    \/ \E a \in DirectActions, env \in SandboxResults : execute_action_call(a, env)

SpecExecuteAction == InitReflect /\ [][NextExecuteAction]_vars

\* C38: a complete action never reaches the Sandbox: neither the step of run
\* that handles it nor execute_action called with it invokes an operation of
\* SecureExecutor, and execute_action returns success with the action's
\* result parameter.
C38_CompleteNeverReachesSandbox ==
    /\ [][(pc \in {"decided", "reflect"} /\ action.action_type = "complete") =>
             /\ executor_calls' = executor_calls
             /\ invocations' = invocations
             /\ history' = history]_vars
    /\ [][(pc = "idle" /\ pc' = "idle" /\ outcome' # outcome
           /\ action'.action_type = "complete") =>
             /\ executor_calls' = executor_calls
             /\ invocations' = invocations
             /\ outcome'.success
             /\ outcome'.observation =
                    <<Get(action'.parameters, "result", "Task completed")>>]_vars

\* execute_action has answered a complete action that carries a result
C38_Witness ==
    /\ pc = "idle"
    /\ outcome.kind = "execute_action"
    /\ action = DComplete.action
    /\ outcome.success
    /\ outcome.observation = <<"Successfully created file">>
    /\ executor_calls = 0

(***************************************************************************)
(* The growth of the running context of a run.                             *)
(***************************************************************************)
\* len("\nLatest observation: " + "\n"), the text around a folded observation
ObservationFrame == 22

\* the most that one iteration adds to the context
GrowthLimit == ObservationFrame + ContextObsLimit - 1

\* len(context): an observation counts as ObsLen counts it
RECURSIVE ContextLen(_)
ContextLen(c) ==
    IF c = <<>> THEN 0
    ELSE (IF <<Head(c)>> = LongOutput THEN ContextObsLimit
          ELSE IF Head(c) = "Latest observation: " THEN ObservationFrame
          ELSE 1) + ContextLen(Tail(c))

\* the part of the context that the loop has added to what run started with
RECURSIVE Folded(_)
Folded(c) ==
    IF c = <<>> THEN <<>>
    ELSE IF Head(c) = "Latest observation: " THEN c
    ELSE Folded(Tail(c))

\* C39: after each dispatched action the context is extended with the
\* observation only if the action succeeded and the observation is shorter
\* than 1000 characters, and is left unchanged otherwise; so the context
\* grows by a bounded amount per iteration, and over a run by at most
\* max_iterations times that amount.
C39_ContextGrowthBounded ==
    /\ [][(pc = "decided" /\ action.action_type # "complete") =>
             LET step == history'[Len(history')] IN
             IF step.success /\ ObsLen(step.observation) < ContextObsLimit
             THEN context' =
                      context \o <<"Latest observation: ">> \o step.observation
             ELSE context' = context]_vars
    /\ [][pc # "idle" =>
             /\ ContextLen(context') - ContextLen(context) <= GrowthLimit
             /\ ContextLen(context') >= ContextLen(context)]_vars
    /\ [](ContextLen(Folded(context)) <= iteration * GrowthLimit)
    /\ [](ContextLen(Folded(context)) <= max_iterations * GrowthLimit)

\* a run in which a short observation was folded, a long one was not and a
\* failed one was not
C39_Witness ==
    /\ Len(history) = 3
    /\ \E i, j, k \in 1..3 :
          /\ history[i].success /\ history[i].observation = <<"ok">>
          /\ history[j].success /\ history[j].observation = LongOutput
          /\ ~history[k].success
    /\ ContextLen(Folded(context)) = ObservationFrame + 1

(***************************************************************************)
(* TelegramBot: who may start a task.                                      *)
(***************************************************************************)
\* TelegramBot.admin_id, the TELEGRAM_ADMIN_ID of the configuration: the id
\* of one of the users
AdminId == 1

\* TelegramBot._check_admin: str(user_id) == self.admin_id, with admin_id
\* the decimal text of AdminId that setup.py writes
_check_admin(user_id) == user_id = AdminId

\* C37: a task run is started only for a request sent by the configured
\* admin user: a /task command or a free-text message of any other user
\* never reaches execute_task and never dispatches a sandbox action.
C37_OnlyAdminStartsRuns ==
    \A h \in Jobs :
        jobs[h].pc # "idle" => _check_admin(handlers[h].user)

====
